---- MODULE Spec2Model ----
(***************************************************************************)
(* A model of the blockchain-rust node: the chain engine (blockchain.rs),  *)
(* the transaction model (transaction.rs), the UTXO index (utxoset.rs),    *)
(* the nonce loop (block.rs), the wallet store (wallets.rs) and the P2P    *)
(* server (server.rs).                                                     *)
(*                                                                         *)
(* Strings are modelled as sequences: String::new() is <<>>.  A digest is  *)
(* modelled as an injective, tagged image of what is hashed, so that two   *)
(* digests are equal exactly when their inputs are.  Option<T> is a        *)
(* sequence of length 0 (None) or 1 (Some).                                *)
(*                                                                         *)
(* Block::new returns only when its proof-of-work search ends; the steps   *)
(* below that build a block describe the call that has returned (partial   *)
(* correctness).  The search itself is modelled on its own (SpecPow).      *)
(***************************************************************************)
EXTENDS Integers, Sequences, FiniteSets, TLC

VARIABLES blocks, last, tip, utxos, call, pow, wal, net, mtx, thr

vars == <<blocks, last, tip, utxos, call, pow, wal, net, mtx, thr>>

----------------------------------------------------------------------------
(* Bounds *)

\* number of distinct block hashes the environment and the miner can use
MaxHash == 3
\* received blocks carry heights 0..MaxHeight
MaxHeight == 1
\* number of wallets
MaxWallet == 2
\* number of blocks a node receives after its genesis block
MaxChain == 3

(* Program constants *)
SUBSIDY == 10

\* the amount argument of the send command
SendAmount == 4

----------------------------------------------------------------------------
(* Primitives *)

NoHash == <<>>
None == <<>>
Some(x) == <<x>>

Wallets == 1..MaxWallet
SecretKey(w) == <<"sk", w>>
PublicKey(w) == <<"pk", w>>

\* RIPEMD-160(SHA-256(pk)): an injective image of the key
hash_pub_key(pub_key) == <<"pkh", pub_key>>

\* base58 address of a wallet, and Address::decode(address).body
get_address(w) == <<"addr", hash_pub_key(PublicKey(w))>>
AddressDecode(address) == address[2]

\* ed25519::signature(message, secret_key)
Ed25519Signature(message, secret_key) == <<"sig", message, secret_key[2]>>

\* ed25519::verify(message, public_key, signature): true exactly for the
\* signature made over message with the secret key of public_key
Ed25519Verify(message, public_key, signature) ==
    /\ Len(signature) = 3
    /\ signature[1] = "sig"
    /\ Len(public_key) = 2
    /\ public_key[1] = "pk"
    /\ signature[3] = public_key[2]
    /\ signature[2] = message

RECURSIVE SumSeq(_)
SumSeq(s) == IF s = <<>> THEN 0 ELSE Head(s) + SumSeq(Tail(s))

RECURSIVE Flatten(_)
Flatten(ss) == IF ss = <<>> THEN <<>> ELSE Head(ss) \o Flatten(Tail(ss))

----------------------------------------------------------------------------
(* Transactions *)

TXInput(txid, vout, signature, pub_key) ==
    [txid |-> txid, vout |-> vout, signature |-> signature, pub_key |-> pub_key]

\* TXOutput::new(value, address): lock sets pub_key_hash to the decoded body
TXOutputNew(value, address) ==
    [value |-> value, pub_key_hash |-> AddressDecode(address)]

\* Transaction::hash: SHA-256 of the transaction serialised with id blanked
TxHash(tx) == <<"txid", tx.vin, tx.vout>>

\* a coinbase whose input refers to output 0 instead of -1
new_coinbase_Vout0(to, data, rnd) ==
    LET tx == [id   |-> NoHash,
               vin  |-> <<TXInput(NoHash, 0, <<>>, <<"data", data, rnd>>)>>,
               vout |-> <<TXOutputNew(SUBSIDY, to)>>]
    IN  [tx EXCEPT !.id = TxHash(tx)]

\* Transaction::new_coinbase(to, data); key is the 32 random bytes drawn when
\* data is empty, and stays all-zero otherwise
new_coinbase(to, data, rnd) ==
    LET key  == IF data = <<>> THEN rnd ELSE 0
        memo == IF data = <<>> THEN <<"Reward to", to>> ELSE data
        tx   == [id   |-> NoHash,
                 vin  |-> <<TXInput(NoHash, -1, <<>>, <<"data", memo, key>>)>>,
                 vout |-> <<TXOutputNew(SUBSIDY, to)>>]
    IN  [tx EXCEPT !.id = TxHash(tx)]

is_coinbase(tx) ==
    /\ Len(tx.vin) = 1
    /\ tx.vin[1].txid = NoHash
    /\ tx.vin[1].vout = -1

trim_copy(tx) ==
    [id   |-> tx.id,
     vin  |-> [i \in 1..Len(tx.vin) |->
                 TXInput(tx.vin[i].txid, tx.vin[i].vout, <<>>, <<>>)],
     vout |-> [i \in 1..Len(tx.vout) |->
                 [value |-> tx.vout[i].value,
                  pub_key_hash |-> tx.vout[i].pub_key_hash]]]

\* The digest signed and verified for input in_id: the trimmed copy with that
\* input's pub_key set to the pub_key_hash of the output it spends.
\* prev_TXs is a function from txid to transaction; vout is 0-based.
InputDigest(tx, in_id, prev_TXs) ==
    LET c       == trim_copy(tx)
        prev_tx == prev_TXs[c.vin[in_id].txid]
        pkh     == prev_tx.vout[c.vin[in_id].vout + 1].pub_key_hash
    IN  TxHash([c EXCEPT !.vin[in_id].pub_key = pkh])

\* prev_tx.vout[vin.vout as usize] indexes out of range (panic)
BadIndex(tx, prev_TXs) ==
    \E i \in 1..Len(tx.vin) :
        \/ tx.vin[i].vout < 0
        \/ tx.vin[i].vout >= Len(prev_TXs[tx.vin[i].txid].vout)

\* Transaction::sign(private_key, prev_TXs), for prev_TXs holding every input
sign(tx, private_key, prev_TXs) ==
    IF is_coinbase(tx) THEN tx
    ELSE [tx EXCEPT !.vin = [i \in 1..Len(tx.vin) |->
             [tx.vin[i] EXCEPT !.signature =
                 Ed25519Signature(InputDigest(tx, i, prev_TXs), private_key)]]]

\* Transaction::verify(prev_TXs): "true", "false", "MissingPrev" or "panic"
verify(tx, prev_TXs) ==
    IF is_coinbase(tx) THEN "true"
    ELSE IF \E i \in 1..Len(tx.vin) : prev_TXs[tx.vin[i].txid].id = NoHash
         THEN "MissingPrev"
    ELSE IF BadIndex(tx, prev_TXs) THEN "panic"
    ELSE IF \A i \in 1..Len(tx.vin) :
                Ed25519Verify(InputDigest(tx, i, prev_TXs),
                              tx.vin[i].pub_key, tx.vin[i].pub_key)
         THEN "true"
         ELSE "false"

----------------------------------------------------------------------------
(* Blocks and the chain *)

\* amounts, values and heights are signed integers of ValueBits bits (i32 in the code)
ValueBits == 7
MinValue == -(2 ^ (ValueBits - 1))
MaxValue == 2 ^ (ValueBits - 1) - 1

\* what a wrapping addition or subtraction leaves of the exact result x
Wrap(x) == ((x - MinValue) % (2 ^ ValueBits)) + MinValue

Hashes == {<<i>> : i \in 1..MaxHash}
Heights == 0..MaxHeight

Block(transactions, prev_block_hash, height, hash) ==
    [transactions |-> transactions, prev_block_hash |-> prev_block_hash,
     height |-> height, hash |-> hash]

\* db.get(hash) on the blocks store
HasBlock(store, hash) == hash \in DOMAIN store

\* BlockchainIterator: the blocks yielded from start, following
\* prev_block_hash until a hash is not in the store.  fuel bounds the walk.
RECURSIVE IterFrom(_, _, _)
IterFrom(store, start, fuel) ==
    IF fuel = 0 \/ ~HasBlock(store, start) THEN <<>>
    ELSE <<store[start]>> \o IterFrom(store, store[start].prev_block_hash, fuel - 1)

\* Blockchain::iter(): a walk longer than the store has revisited a block
Iter(store, start) == IterFrom(store, start, Cardinality(DOMAIN store) + 1)

\* the transactions in the order the iterator visits them
ChainTxs(store, start) ==
    LET bs == Iter(store, start)
    IN  Flatten([i \in 1..Len(bs) |-> bs[i].transactions])

\* the iterator never ends: the prev_block_hash links from start form a cycle
IterDiverges(store, start) ==
    Len(Iter(store, start)) > Cardinality(DOMAIN store)

\* Blockchain::get_best_height
get_best_height(store, lastv) ==
    IF lastv = None THEN -1 ELSE store[lastv[1]].height

\* Blockchain::find_transaction(id): Some(first match) or None (NotFound)
find_transaction(store, start, id) ==
    LET txs == ChainTxs(store, start)
        hit == {i \in 1..Len(txs) : txs[i].id = id}
    IN  IF hit = {} THEN None
        ELSE Some(txs[CHOOSE i \in hit : \A j \in hit : i <= j])

\* Blockchain::get_prev_tx_map: None when some find_transaction fails
get_prev_tx_map(store, start, tx) ==
    LET ids == {tx.vin[i].txid : i \in 1..Len(tx.vin)}
    IN  IF \E id \in ids : find_transaction(store, start, id) = None THEN None
        ELSE Some([id \in ids |-> find_transaction(store, start, id)[1]])

\* Blockchain::verify_transaction: "true", "false", the error raised, or
\* "diverges" when a find_transaction scan runs round a cycle for ever
verify_transaction(store, start, tx) ==
    LET prev_TXs == get_prev_tx_map(store, start, tx)
    IN  IF prev_TXs = None
        THEN IF IterDiverges(store, start) THEN "diverges" ELSE "NotFound"
        ELSE verify(tx, prev_TXs[1])

\* Blockchain::sign_transaction, for a transaction whose inputs are found
sign_transaction(store, start, tx, private_key) ==
    sign(tx, private_key, get_prev_tx_map(store, start, tx)[1])

\* the loop at the head of mine_block: the outcome for the first transaction
\* that does not verify, "true" when all do
VerifyAll_Skipped(store, start, txs) == "true"
RECURSIVE VerifyAll(_, _, _)
VerifyAll(store, start, txs) ==
    IF txs = <<>> THEN "true"
    ELSE LET r == verify_transaction(store, start, Head(txs))
         IN  IF r = "true" THEN VerifyAll(store, start, Tail(txs)) ELSE r

----------------------------------------------------------------------------
(* The UTXO index *)

\* the outputs of tx, in order from 0-based index i, whose (id, index) is not
\* in spent
Unspent_All(tx, i, spent) == IF i = 0 THEN tx.vout ELSE <<>>
RECURSIVE Unspent(_, _, _)
Unspent(tx, i, spent) ==
    IF i >= Len(tx.vout) THEN <<>>
    ELSE (IF <<tx.id, i>> \in spent THEN <<>> ELSE <<tx.vout[i + 1]>>)
         \o Unspent(tx, i + 1, spent)

\* one transaction of the walk of find_UTXO; acc = [utxos, spend_txos]
FindUTXOTx(acc, tx) ==
    LET keep == Unspent(tx, 0, acc.spend_txos)
        old  == IF tx.id \in DOMAIN acc.utxos THEN acc.utxos[tx.id] ELSE <<>>
        ut   == IF keep = <<>> THEN acc.utxos
                ELSE [id \in DOMAIN acc.utxos \cup {tx.id} |->
                        IF id = tx.id THEN old \o keep ELSE acc.utxos[id]]
        sp   == IF is_coinbase(tx) THEN acc.spend_txos
                ELSE acc.spend_txos \cup
                     {<<tx.vin[i].txid, tx.vin[i].vout>> : i \in 1..Len(tx.vin)}
    IN  [utxos |-> ut, spend_txos |-> sp]

RECURSIVE FindUTXOWalk(_, _)
FindUTXOWalk(acc, txs) ==
    IF txs = <<>> THEN acc
    ELSE FindUTXOWalk(FindUTXOTx(acc, Head(txs)), Tail(txs))

\* Blockchain::find_UTXO
find_UTXO(store, start) ==
    FindUTXOWalk([utxos |-> <<>>, spend_txos |-> {}], ChainTxs(store, start)).utxos

\* UTXOSet::reindex: the store is emptied and refilled from find_UTXO
reindex(store, start) == find_UTXO(store, start)

\* the outputs of outs except the one at 0-based position pos
RECURSIVE DropAt(_, _, _)
DropAt(outs, pos, i) ==
    IF i >= Len(outs) THEN <<>>
    ELSE (IF i = pos THEN <<>> ELSE <<outs[i + 1]>>) \o DropAt(outs, pos, i + 1)

\* UTXOSet::update for one input; st = [utxos, panic]
UpdateVin(st, vin) ==
    IF st.panic \/ vin.txid \notin DOMAIN st.utxos
    THEN [st EXCEPT !.panic = TRUE]
    ELSE LET update_outputs == DropAt(st.utxos[vin.txid], vin.vout, 0)
         IN  IF update_outputs = <<>>
             THEN [st EXCEPT !.utxos =
                      [id \in DOMAIN st.utxos \ {vin.txid} |-> st.utxos[id]]]
             ELSE [st EXCEPT !.utxos[vin.txid] = update_outputs]

RECURSIVE UpdateVins(_, _)
UpdateVins(st, vins) ==
    IF vins = <<>> THEN st ELSE UpdateVins(UpdateVin(st, Head(vins)), Tail(vins))

\* UTXOSet::update for one transaction
UpdateTx(st, tx) ==
    LET s1 == IF is_coinbase(tx) THEN st ELSE UpdateVins(st, tx.vin)
    IN  IF s1.panic THEN s1
        ELSE [s1 EXCEPT !.utxos =
                 [id \in DOMAIN s1.utxos \cup {tx.id} |->
                    IF id = tx.id THEN tx.vout ELSE s1.utxos[id]]]

RECURSIVE UpdateTxs(_, _)
UpdateTxs(st, txs) ==
    IF txs = <<>> THEN st ELSE UpdateTxs(UpdateTx(st, Head(txs)), Tail(txs))

\* UTXOSet::update(block): [utxos, panic]; panic is the unwrap of a missing key
update(store, block) ==
    UpdateTxs([utxos |-> store, panic |-> FALSE], block.transactions)

----------------------------------------------------------------------------
(* Inputs *)

\* the genesis coinbase of create_blockchain(address of w)
GenesisCoinbase(w) == new_coinbase(get_address(w), <<"GENESIS_COINBASE">>, 0)

\* the reward coinbase cmd_send builds for sender w
RewardCoinbase(w) == new_coinbase(get_address(w), <<"Reward">>, 0)

\* a miner's coinbase with an empty memo and random key rnd
MinerCoinbase(w, rnd) == new_coinbase(get_address(w), <<>>, rnd)

\* a transaction of wallet w spending output vout of prev: amount to wallet
\* to, the rest back to w; built and signed as new_UTXO does
SpendOf(w, prev, vout, to, amount) ==
    LET acc == prev.vout[vout + 1].value
        tx  == [id   |-> NoHash,
                vin  |-> <<TXInput(prev.id, vout, <<>>, PublicKey(w))>>,
                vout |-> <<TXOutputNew(amount, get_address(to))>> \o
                         (IF acc > amount
                          THEN <<TXOutputNew(acc - amount, get_address(w))>>
                          ELSE <<>>)]
        t1  == [tx EXCEPT !.id = TxHash(tx)]
    IN  sign(t1, SecretKey(w), [id \in {prev.id} |-> prev])

\* the transaction lists offered to mine_block
MineTxs ==
    { <<>>,
      <<RewardCoinbase(1)>>,
      <<SpendOf(1, GenesisCoinbase(1), 0, 2, SendAmount)>>,
      <<SpendOf(2, GenesisCoinbase(2), 0, 1, SendAmount)>>,
      <<RewardCoinbase(1), SpendOf(1, GenesisCoinbase(1), 0, 2, SendAmount)>>,
      <<SpendOf(1, GenesisCoinbase(1), 0, 2, SendAmount),
        SpendOf(1, GenesisCoinbase(1), 0, 1, SendAmount)>> }

\* the blocks a block message can carry: any hash, link and height (the low
\* heights and the greatest one)
ReceivedBlocks ==
    { Block(<<>>, prev, height, hash) :
        prev \in Hashes \cup {NoHash}, height \in Heights \cup {MaxValue},
        hash \in Hashes }

\* the digests no stored block carries or refers to
FreshHashes(store) ==
    {h \in Hashes : /\ h \notin DOMAIN store
                    /\ \A k \in DOMAIN store : store[k].prev_block_hash # h}

\* the digest Block::new computes for a new block.  SHA-256 is taken to be
\* collision-free, so it is a value no stored block carries or refers to;
\* which of those it is makes no difference, and the least is taken.
NewHash(store) ==
    CHOOSE h \in FreshHashes(store) : \A g \in FreshHashes(store) : h[1] <= g[1]

----------------------------------------------------------------------------
(* The chain engine *)

\* the last call made and what it returned
NoCall == [op |-> "none", result |-> "none", txs |-> <<>>]

\* no Block::new is running, no wallet file exists, no node is started, no
\* connection worker runs
PowIdle == [pc |-> "idle", nonce |-> 0, prefix |-> <<>>]
WalIdle == [db |-> <<>>, mem |-> None, created |-> <<>>, since |-> {}]
NetIdle == <<>>

\* number of connection workers running at a time
MaxWorker == 2
Workers == 1..MaxWorker

\* no worker holds the mutex and no worker has a step to take
MtxIdle == [holder |-> 0, prog |-> [w \in Workers |-> <<>>]]

\* no connection worker is inside a handler
ThrIdle == <<>>

Init ==
    /\ blocks = <<>>
    /\ last = None
    /\ tip = NoHash
    /\ utxos = <<>>
    /\ call = NoCall
    /\ pow = PowIdle
    /\ wal = WalIdle
    /\ net = NetIdle
    /\ mtx = MtxIdle
    /\ thr = ThrIdle

\* cmd_create_blockchain: Blockchain::create_blockchain(address), then reindex
CmdCreateBlockchain(w) ==
    /\ UNCHANGED <<pow, wal, net, mtx, thr>>
    /\ last = None
    /\ LET h       == NewHash(<<>>)
           genesis == Block(<<GenesisCoinbase(w)>>, NoHash, 0, h)
           store   == [k \in {h} |-> genesis]
       IN  /\ blocks' = store
           /\ last' = Some(h)
           /\ tip' = h
           /\ utxos' = reindex(store, h)
    /\ call' = [NoCall EXCEPT !.op = "create_blockchain", !.result = "Ok"]

\* db.insert(block.get_hash(), serialize(&block)) on the blocks store
InsertBlock_Dropped(store, block) == store
InsertBlock(store, block) ==
    [k \in DOMAIN store \cup {block.hash} |->
        IF k = block.hash THEN block ELSE store[k]]

\* the height mine_block gives the new block: the i32 sum, which wraps when
\* the build has no overflow checks
NewBlockHeight(store, lastv) == Wrap(get_best_height(store, lastv) + 1)

\* get_best_height()? + 1 does not fit an i32
HeightOverflows(store, lastv) == get_best_height(store, lastv) = MaxValue

\* Blockchain::mine_block(transactions); with overflow checks the height sum
\* panics when it does not fit, and db.flush()? returns the error of a failed
\* write after the block and LAST are inserted and before the tip is set
MineBlock(transactions, overflow_checks, flush_ok) ==
    /\ UNCHANGED <<pow, wal, net, mtx, thr>>
    /\ last # None
    /\ LET v == VerifyAll(blocks, tip, transactions)
           new_block == Block(transactions, last[1],
                              NewBlockHeight(blocks, last), NewHash(blocks))
       IN  /\ v \notin {"diverges", "panic"}
           /\ IF v = "true" /\ HeightOverflows(blocks, last) /\ overflow_checks
              THEN /\ UNCHANGED <<blocks, last, tip>>
                   /\ call' = [op |-> "mine_block", result |-> "panic",
                               txs |-> transactions]
              ELSE IF v = "true"
              THEN /\ FreshHashes(blocks) # {}
                   /\ blocks' = InsertBlock(blocks, new_block)
                   /\ last' = Some(new_block.hash)
                   /\ tip' = IF flush_ok THEN new_block.hash ELSE tip
                   /\ call' = [op |-> "mine_block",
                               result |-> IF flush_ok THEN "Ok" ELSE "Io",
                               txs |-> transactions]
              ELSE /\ UNCHANGED <<blocks, last, tip>>
                   /\ call' = [op |-> "mine_block",
                               result |-> IF v = "false" THEN "InvalidTx" ELSE v,
                               txs |-> transactions]
    /\ UNCHANGED utxos

\* add_block's test for a hash that is already a key of the store
IsDuplicate_Never(store, block) == FALSE
IsDuplicate(store, block) == HasBlock(store, block.hash)

\* add_block's test for moving LAST and the tip
TipMoves_OnEqual(block, last_height) == block.height >= last_height
TipMoves(block, last_height) == block.height > last_height

\* Blockchain::add_block(block): what it does to the store, LAST and the tip
add_block(block) ==
    IF IsDuplicate(blocks, block)
    THEN UNCHANGED <<blocks, last, tip>>
    ELSE LET store == InsertBlock(blocks, block)
             last_height == get_best_height(store, last)
         IN  /\ blocks' = store
             /\ IF TipMoves(block, last_height)
                THEN last' = Some(block.hash) /\ tip' = block.hash
                ELSE UNCHANGED <<last, tip>>

\* a call of Blockchain::add_block(block) on its own
AddBlock(block) ==
    /\ UNCHANGED <<pow, wal, net, mtx, thr>>
    /\ last # None
    /\ add_block(block)
    /\ call' = [op |-> "add_block",
                result |-> IF IsDuplicate(blocks, block) THEN "Duplicate" ELSE "Ok",
                txs |-> <<>>]
    /\ UNCHANGED utxos

\* UTXOSet::reindex
Reindex ==
    /\ UNCHANGED <<pow, wal, net, mtx, thr>>
    /\ last # None
    /\ ~IterDiverges(blocks, tip)
    /\ utxos' = reindex(blocks, tip)
    /\ call' = [NoCall EXCEPT !.op = "reindex", !.result = "Ok"]
    /\ UNCHANGED <<blocks, last, tip>>

Next ==
    \/ CmdCreateBlockchain(1)
    \/ \E txs \in MineTxs, overflow_checks \in BOOLEAN, flush_ok \in BOOLEAN :
           MineBlock(txs, overflow_checks, flush_ok)
    \/ \E b \in ReceivedBlocks : AddBlock(b)
    \/ Reindex

Spec == Init /\ [][Next]_vars

----------------------------------------------------------------------------
(* Properties of the chain engine, checked under Spec *)

\* C1: whenever LAST exists in the blocks store, its value is the hash of a
\* block that is present in the blocks store.
C1_LastResolves ==
    last # None => /\ HasBlock(blocks, last[1])
                   /\ blocks[last[1]].hash = last[1]

\* C1 witness: LAST has been moved by add_block to a received block
C1_Witness ==
    /\ call.op = "add_block"
    /\ last # None
    /\ last[1] # NewHash(<<>>)
    /\ Cardinality(DOMAIN blocks) = MaxHash

\* the walk from LAST by prev_block_hash, as far as it gets
LastWalk == IF last = None THEN <<>> ELSE Iter(blocks, last[1])

\* C2: walking from LAST by prev_block_hash visits blocks of strictly
\* decreasing height and ends at a block of height 0 whose prev_block_hash is
\* empty; it never stops early at a missing block.
C2_WalkReachesGenesis ==
    last # None =>
        LET w == LastWalk
        IN  /\ Len(w) >= 1
            /\ \A i \in 1..(Len(w) - 1) : w[i].height > w[i + 1].height
            /\ w[Len(w)].height = 0
            /\ w[Len(w)].prev_block_hash = NoHash

\* C26: for every blocks store reachable through create_blockchain,
\* mine_block and add_block of received blocks, the iterator started at the
\* tip yields finitely many blocks and then stops.
C26_IterationFinite == ~IterDiverges(blocks, tip)

\* C6: add_block with a block whose hash is already a key of the blocks store
\* leaves the blocks store, LAST and the tip unchanged, whatever its height.
C6_DuplicateAddIsNoOp ==
    [][\A b \in ReceivedBlocks :
          (AddBlock(b) /\ HasBlock(blocks, b.hash))
              => UNCHANGED <<blocks, last, tip>>]_vars

\* C6 witness: add_block returned for a block whose hash was already stored
C6_Witness ==
    /\ call.op = "add_block"
    /\ call.result = "Duplicate"
    /\ Cardinality(DOMAIN blocks) >= 2

\* C7: for a block whose hash is not yet stored, add_block stores the block;
\* if its height is strictly greater than the best height before the call,
\* LAST and the tip become its hash, otherwise LAST and the tip are unchanged.
C7_AddBlockMovesTipOnlyUp ==
    [][\A b \in ReceivedBlocks :
          (AddBlock(b) /\ ~HasBlock(blocks, b.hash)) =>
              /\ HasBlock(blocks', b.hash)
              /\ blocks'[b.hash] = b
              /\ \A k \in DOMAIN blocks : blocks'[k] = blocks[k]
              /\ IF b.height > get_best_height(blocks, last)
                 THEN last' = Some(b.hash) /\ tip' = b.hash
                 ELSE last' = last /\ tip' = tip]_vars

\* C7 witness: a new block of height at most the best height has been stored
\* beside the genesis block, and LAST still names the genesis block
C7_Witness ==
    /\ call.op = "add_block"
    /\ call.result = "Ok"
    /\ Cardinality(DOMAIN blocks) = 2
    /\ last = Some(NewHash(<<>>))

\* C8: when mine_block succeeds, the new block has prev_block_hash equal to
\* LAST before the call and height equal to the best height before the call
\* plus one, it is stored under its hash, and LAST and the tip are its hash.
C8_MineBlockExtendsLast ==
    [][\A txs \in MineTxs, overflow_checks \in BOOLEAN, flush_ok \in BOOLEAN :
          (MineBlock(txs, overflow_checks, flush_ok) /\ call'.result = "Ok") =>
              /\ HasBlock(blocks', tip')
              /\ blocks'[tip'].hash = tip'
              /\ blocks'[tip'].prev_block_hash = last[1]
              /\ blocks'[tip'].height = get_best_height(blocks, last) + 1
              /\ blocks'[tip'].transactions = txs
              /\ last' = Some(tip')
              /\ ~HasBlock(blocks, tip')]_vars

\* C35: the best height never decreases: after every mine_block and every
\* add_block call, get_best_height is greater than or equal to its value
\* before the call.
C35_BestHeightNeverDecreases ==
    [][call'.op \in {"mine_block", "add_block"} =>
          get_best_height(blocks', last') >= get_best_height(blocks, last)]_vars

\* C36: after create_blockchain and after every completed mine_block or
\* add_block call, successful or failing, the tip field equals the value
\* stored under LAST.
C36_TipIsLast ==
    call.op \in {"create_blockchain", "mine_block", "add_block"} =>
        (call.result # "panic" => last = Some(tip))

FirstFailure(txs) ==
    LET bad == {i \in 1..Len(txs) :
                   verify_transaction(blocks, tip, txs[i]) # "true"}
    IN  IF bad = {} THEN "true"
        ELSE verify_transaction(blocks, tip,
                 txs[CHOOSE i \in bad : \A j \in bad : i <= j])

NoCoinbase(txs) == \A i \in 1..Len(txs) : ~is_coinbase(txs[i])

\* C9 (as stated, for lists without a coinbase): if any transaction passed
\* to mine_block fails verify_transaction, mine_block returns the InvalidTx
\* error and the blocks store, LAST and the tip are unchanged.
C9_FailedVerifyIsInvalidTx ==
    [][\A txs \in MineTxs :
          (MineBlock(txs, TRUE, TRUE) /\ NoCoinbase(txs) /\ FirstFailure(txs) # "true") =>
              /\ call'.result = "InvalidTx"
              /\ UNCHANGED <<blocks, last, tip>>]_vars

\* C9 (amended): if a transaction passed to mine_block does not verify,
\* mine_block returns an error and stores nothing: InvalidTx when
\* verify_transaction returns false, and the error of verify_transaction
\* (NotFound, MissingPrev) when it returns one; the blocks store, LAST and
\* the tip are unchanged.
C9_FailedVerifyStoresNothing ==
    [][\A txs \in MineTxs :
          (MineBlock(txs, TRUE, TRUE) /\ FirstFailure(txs) # "true") =>
              /\ call'.result =
                    (IF FirstFailure(txs) = "false" THEN "InvalidTx"
                     ELSE FirstFailure(txs))
              /\ call'.result \in {"InvalidTx", "NotFound", "MissingPrev"}
              /\ UNCHANGED <<blocks, last, tip>>]_vars

\* C9 witness: mine_block has rejected a list with InvalidTx
C9_Witness ==
    /\ call.op = "mine_block"
    /\ call.result = "InvalidTx"
    /\ Len(call.txs) >= 1

\* C10: for every coinbase transaction and every chain,
\* Blockchain::verify_transaction returns true.
C10_CoinbaseVerifies ==
    last # None =>
        \A w \in Wallets :
            /\ verify_transaction(blocks, tip, RewardCoinbase(w)) = "true"
            /\ verify_transaction(blocks, tip, MinerCoinbase(w, 1)) = "true"

----------------------------------------------------------------------------
(* The UTXO index of a node that receives a peer's chain block by block *)

\* the (txid, vout) pairs the non-coinbase inputs of txs[1..n] reference
RefsUpTo(txs, n) ==
    UNION {{<<txs[q].vin[i].txid, txs[q].vin[i].vout>> : i \in 1..Len(txs[q].vin)} :
        q \in {r \in 1..n : ~is_coinbase(txs[r])}}

\* the wallet that owns an output
OwnerOf(out) == CHOOSE w \in Wallets : hash_pub_key(PublicKey(w)) = out.pub_key_hash

\* the wallet a sender pays
Payee(w) == (w % MaxWallet) + 1

\* the amount sent out of an output of the given value
AmountOf(value) == IF value > SendAmount THEN SendAmount ELSE value

\* the transactions a wallet can build on the chain: each spends one output
\* that no input of the chain references, and is signed by the owner
NextSpends(store, start) ==
    LET txs  == ChainTxs(store, start)
        refs == RefsUpTo(txs, Len(txs))
    IN  { SpendOf(OwnerOf(txs[p].vout[j + 1]), txs[p], j,
                  Payee(OwnerOf(txs[p].vout[j + 1])),
                  AmountOf(txs[p].vout[j + 1].value)) :
            <<p, j>> \in {pj \in (1..Len(txs)) \X (0..1) :
                            /\ pj[2] < Len(txs[pj[1]].vout)
                            /\ <<txs[pj[1]].id, pj[2]>> \notin refs} }

\* the sender of a transaction built by SpendOf
SenderOf(tx) == tx.vin[1].pub_key[2]

\* the next block of a peer's chain: mined by the sender (cmd_send, reward
\* coinbase first) or by a miner node (coinbase with a random key last)
NextBlocks(store, start) ==
    IF ~HasBlock(store, start) THEN {} ELSE
    LET height == store[start].height + 1
        hash   == <<Cardinality(DOMAIN store) + 1>>
    IN  { Block(<<RewardCoinbase(SenderOf(tx)), tx>>, start, height, hash) :
            tx \in NextSpends(store, start) }
        \cup
        { Block(<<tx, MinerCoinbase(Payee(SenderOf(tx)), height)>>,
                start, height, hash) :
            tx \in NextSpends(store, start) }

\* Server::handle_block: add_block, then either the request for the next
\* block in transit or the reindex when none is left
HandleBlock(block, in_transit_left) ==
    /\ UNCHANGED <<pow, wal, net, mtx, thr>>
    /\ last # None
    /\ Cardinality(DOMAIN blocks) <= MaxChain
    /\ add_block(block)
    /\ utxos' = IF in_transit_left THEN utxos ELSE reindex(blocks', tip')
    /\ call' = [op |-> "handle_block",
                result |-> IF in_transit_left THEN "GetData" ELSE "Reindexed",
                txs |-> block.transactions]

NextUtxo ==
    \/ CmdCreateBlockchain(1)
    \/ \E b \in NextBlocks(blocks, tip), left \in BOOLEAN : HandleBlock(b, left)
    \/ Reindex

SpecUtxo == Init /\ [][NextUtxo]_vars

----------------------------------------------------------------------------
(* Properties of the UTXO index, checked under SpecUtxo *)

\* the transactions of the chain walked from LAST, tip first
LastTxs == IF last = None THEN <<>> ELSE ChainTxs(blocks, last[1])

\* C3: in every reachable state of a node, the states between add_block and
\* the following reindex included, every key of the UTXO store is the id of a
\* transaction in the chain walked from LAST, and the outputs stored under it
\* are exactly that transaction's outputs that no input in the chain
\* references.
C3_UtxoConsistent ==
    LET refs == RefsUpTo(LastTxs, Len(LastTxs))
    IN  \A id \in DOMAIN utxos :
            \E p \in 1..Len(LastTxs) :
                /\ LastTxs[p].id = id
                /\ utxos[id] = Unspent(LastTxs[p], 0, refs)

\* C4: for every chain and every block appended to it, update(block) applied
\* to the UTXO store that reindex() gives for the chain before the block
\* yields the same store as reindex() after the block is added.
C4_UpdateMatchesReindex ==
    last # None =>
        \A b \in NextBlocks(blocks, tip) :
            LET st == update(reindex(blocks, tip), b)
            IN  /\ ~st.panic
                /\ st.utxos = reindex(InsertBlock(blocks, b), b.hash)

SumValues(outs) == SumSeq([i \in 1..Len(outs) |-> outs[i].value])

\* the sum of the values of all outputs held in a UTXO store
RECURSIVE StoreSum(_)
StoreSum(store) ==
    IF DOMAIN store = {} THEN 0
    ELSE LET id == CHOOSE k \in DOMAIN store : TRUE
         IN  SumValues(store[id]) +
             StoreSum([k \in DOMAIN store \ {id} |-> store[k]])

\* the sum of the values of the coinbase outputs of txs
CoinbaseSum(txs) ==
    SumSeq([p \in 1..Len(txs) |->
               IF is_coinbase(txs[p]) THEN SumValues(txs[p].vout) ELSE 0])

\* the sum of the values of all outputs of txs
OutputsSum(txs) == SumSeq([p \in 1..Len(txs) |-> SumValues(txs[p].vout)])

\* the sum of the values of the outputs the non-coinbase inputs of txs spend
SpentSum(txs) ==
    SumSeq([q \in 1..Len(txs) |->
               IF is_coinbase(txs[q]) THEN 0
               ELSE SumSeq([i \in 1..Len(txs[q].vin) |->
                       find_transaction(blocks, tip, txs[q].vin[i].txid)[1]
                           .vout[txs[q].vin[i].vout + 1].value])])

\* the sum of the values of the outputs of txs whose (id, index) an input
\* earlier in txs references
ReferencedEarlierSum(txs) ==
    SumSeq([p \in 1..Len(txs) |->
               SumSeq([j \in 1..Len(txs[p].vout) |->
                       IF <<txs[p].id, j - 1>> \in RefsUpTo(txs, p - 1)
                       THEN txs[p].vout[j].value ELSE 0])])

\* the UTXO store is the one the reindex that ended the last call wrote
AfterReindex ==
    \/ call.op \in {"create_blockchain", "reindex"}
    \/ call.op = "handle_block" /\ call.result = "Reindexed"

----------------------------------------------------------------------------
(* The UTXO index kept by update: every block appended to the chain is
   followed by update(block), as in cmd_send, with a reindex at any time *)

\* a block appended to the chain, then UTXOSet::update(block)
UpdateBlock(block) ==
    /\ UNCHANGED <<pow, wal, net, mtx, thr>>
    /\ last # None
    /\ Cardinality(DOMAIN blocks) <= MaxChain
    /\ add_block(block)
    /\ \E st \in {update(utxos, block)} :
           /\ ~st.panic
           /\ utxos' = st.utxos
    /\ call' = [op |-> "update", result |-> "Ok", txs |-> block.transactions]

NextIndex ==
    \/ CmdCreateBlockchain(1)
    \/ \E b \in NextBlocks(blocks, tip) : UpdateBlock(b)
    \/ Reindex

SpecIndex == Init /\ [][NextIndex]_vars

\* C29: after any sequence of reindex() and update(block) calls, no key of
\* the UTXO store maps to an empty output list: a transaction all of whose
\* outputs have been spent has no entry.  A transaction counts as spent
\* when the chain holds its id once and an input of the chain references
\* each of its outputs.
C29_SpentHaveNoEntry ==
    LET refs == RefsUpTo(LastTxs, Len(LastTxs))
        at(id) == {p \in 1..Len(LastTxs) : LastTxs[p].id = id}
        AllOutputsSpent(id) ==
            /\ Cardinality(at(id)) = 1
            /\ \A p \in at(id) :
                   \A j \in 1..Len(LastTxs[p].vout) : <<id, j - 1>> \in refs
    IN  \A id \in DOMAIN utxos :
            /\ utxos[id] # <<>>
            /\ ~AllOutputsSpent(id)

----------------------------------------------------------------------------
(* Properties of signing and verification, checked under SpecUtxo *)

\* C11: every non-coinbase transaction whose inputs were signed by sign with
\* a wallet's secret key, its inputs carrying that wallet's public key,
\* verifies as true against the same prev_TXs map.
C11_SignedVerifies ==
    last # None =>
        \A tx \in NextSpends(blocks, tip) :
            /\ tx = sign_transaction(blocks, tip, tx, SecretKey(SenderOf(tx)))
            /\ verify(tx, get_prev_tx_map(blocks, tip, tx)[1]) = "true"

----------------------------------------------------------------------------
(* The send command *)

\* the orders in which an iteration can visit the members of S
RECURSIVE Orders(_)
Orders(S) ==
    IF S = {} THEN {<<>>}
    ELSE UNION {{<<x>> \o o : o \in Orders(S \ {x})} : x \in S}

\* the keys of the UTXO store that hold an output locked to address; the
\* other keys add nothing to the scan of find_spendable_outputs
SenderKeys(store, address) ==
    {id \in DOMAIN store :
        \E i \in 1..Len(store[id]) : store[id][i].pub_key_hash = address}

\* find_spendable_outputs over the stored outputs of one key, from position
\* i; st = [accumulated, picked, overflowed], picked the (txid, out_idx)
\* pairs taken, overflowed whether an accumulated += value left the range
RECURSIVE SpendableOuts(_, _, _, _, _, _)
SpendableOuts(st, txid, outs, i, address, amount) ==
    IF i >= Len(outs) THEN st
    ELSE SpendableOuts(
             IF outs[i + 1].pub_key_hash = address /\ st.accumulated < amount
             THEN [accumulated |-> Wrap(st.accumulated + outs[i + 1].value),
                   picked |-> Append(st.picked, <<txid, i>>),
                   overflowed |->
                       \/ st.overflowed
                       \/ st.accumulated + outs[i + 1].value
                              # Wrap(st.accumulated + outs[i + 1].value)]
             ELSE st,
             txid, outs, i + 1, address, amount)

RECURSIVE SpendableWalk(_, _, _, _, _)
SpendableWalk(st, store, order, address, amount) ==
    IF order = <<>> THEN st
    ELSE SpendableWalk(
             SpendableOuts(st, Head(order), store[Head(order)], 0, address, amount),
             store, Tail(order), address, amount)

\* UTXOSet::find_spendable_outputs(address, amount), the store iterated in
\* the given order of its keys
find_spendable_outputs(store, order, address, amount) ==
    SpendableWalk([accumulated |-> 0, picked |-> <<>>, overflowed |-> FALSE],
                  store, order, address, amount)

\* new_UTXO's test for too small a balance
NotEnough_Never(accumulated, amount) == FALSE
NotEnough(accumulated, amount) == accumulated < amount

\* the inputs new_UTXO builds from the selection, the selection map iterated
\* in map_order
RECURSIVE InputsOf(_, _, _)
InputsOf(picked, map_order, pub_key) ==
    IF map_order = <<>> THEN <<>>
    ELSE LET mine == SelectSeq(picked, LAMBDA p : p[1] = Head(map_order))
         IN  [i \in 1..Len(mine) |->
                 TXInput(mine[i][1], mine[i][2], <<>>, pub_key)]
             \o InputsOf(picked, Tail(map_order), pub_key)

\* Transaction::new_UTXO(wallet w, to, amount, utxo): [err, tx].  An
\* overflowing accumulated += value or acc_v.0 - amount panics in a build
\* with overflow checks and wraps in one without.
new_UTXO(w, to, amount, store, chain, start, db_order, map_order, overflow_checks) ==
    LET acc_v == find_spendable_outputs(store, db_order,
                                        hash_pub_key(PublicKey(w)), amount)
        change == acc_v.accumulated - amount
        vin   == InputsOf(acc_v.picked, map_order, PublicKey(w))
        vout  == <<TXOutputNew(amount, to)>> \o
                 (IF acc_v.accumulated > amount
                  THEN <<TXOutputNew(Wrap(change), get_address(w))>>
                  ELSE <<>>)
        tx    == [id |-> NoHash, vin |-> vin, vout |-> vout]
        t1    == [tx EXCEPT !.id = TxHash(tx)]
        prev  == get_prev_tx_map(chain, start, t1)
    IN  IF acc_v.overflowed /\ overflow_checks
        THEN [err |-> "panic", tx |-> t1]
        ELSE IF NotEnough(acc_v.accumulated, amount)
        THEN [err |-> "InsufficientFunds", tx |-> t1]
        ELSE IF acc_v.accumulated > amount /\ change # Wrap(change)
                /\ overflow_checks
        THEN [err |-> "panic", tx |-> t1]
        ELSE IF prev = None THEN [err |-> "NotFound", tx |-> t1]
        ELSE IF \E i \in 1..Len(vin) : prev[1][vin[i].txid].id = NoHash
             THEN [err |-> "MissingPrev", tx |-> t1]
        ELSE IF BadIndex(t1, prev[1]) THEN [err |-> "panic", tx |-> t1]
        ELSE [err |-> "none", tx |-> sign(t1, SecretKey(w), prev[1])]

\* cmd_get_balance: the sum of the stored outputs locked to address
get_balance(store, address) ==
    LET locked(outs) == SelectSeq(outs, LAMBDA o : o.pub_key_hash = address)
    IN  StoreSum([id \in DOMAIN store |-> locked(store[id])])

\* the amounts given to the send command
SendAmounts == {MinValue, -1, 0, SendAmount, SUBSIDY + 1}

\* cmd_send(from, to, amount, mine_now)
CmdSend(from, to, amount, mine_now) ==
    /\ UNCHANGED <<pow, wal, net, mtx, thr>>
    /\ last # None
    /\ ~IterDiverges(blocks, tip)
    /\ \E db_order \in Orders(SenderKeys(utxos, hash_pub_key(PublicKey(from)))) :
       \E sel \in {find_spendable_outputs(utxos, db_order,
                       hash_pub_key(PublicKey(from)), amount).picked} :
       \E map_order \in Orders({sel[i][1] : i \in 1..Len(sel)}) :
       \E r \in {new_UTXO(from, get_address(to), amount, utxos,
                          blocks, tip, db_order, map_order, overflow_checks) :
                     overflow_checks \in BOOLEAN} :
         LET txs  == <<RewardCoinbase(from), r.tx>>
             new_block == Block(txs, last[1],
                                NewBlockHeight(blocks, last), NewHash(blocks))
             done(result, sent) ==
                 call' = [op |-> "send", result |-> result, txs |-> sent,
                          from |-> from, to |-> to, amount |-> amount,
                          mine_now |-> mine_now]
         IN  /\ r.err # "panic"
             /\ IF r.err # "none"
                THEN /\ done(r.err, <<>>)
                     /\ UNCHANGED <<blocks, last, tip, utxos>>
                ELSE IF ~mine_now
                THEN /\ done("Sent", <<r.tx>>)
                     /\ UNCHANGED <<blocks, last, tip, utxos>>
                ELSE \E v \in {VerifyAll(blocks, tip, txs)} :
                     IF v # "true"
                     THEN /\ v \notin {"diverges", "panic"}
                          /\ done(IF v = "false" THEN "InvalidTx" ELSE v, <<r.tx>>)
                          /\ UNCHANGED <<blocks, last, tip, utxos>>
                     ELSE \E up \in {update(utxos, new_block)} :
                          /\ FreshHashes(blocks) # {}
                          /\ ~up.panic
                          /\ blocks' = InsertBlock(blocks, new_block)
                          /\ last' = Some(new_block.hash)
                          /\ tip' = new_block.hash
                          /\ utxos' = up.utxos
                          /\ done("Ok", <<r.tx>>)

\* a block message handled when no block is left in transit, for the first
\* MaxHeight blocks of the peer's chain
ReceiveBlock(block) ==
    /\ block.height <= MaxHeight
    /\ HandleBlock(block, FALSE)

NextSend ==
    \/ CmdCreateBlockchain(1)
    \/ \E b \in NextBlocks(blocks, tip) : ReceiveBlock(b)
    \/ \E from \in Wallets, amount \in SendAmounts, mine_now \in BOOLEAN :
           \E to \in {from, Payee(from)} : CmdSend(from, to, amount, mine_now)

SpecSend == Init /\ [][NextSend]_vars

----------------------------------------------------------------------------
(* Properties of the send command, checked under SpecSend *)

C13_OutputsPositive ==
    (call.op = "send" /\ call.txs # <<>>) =>
        \A i \in 1..Len(call.txs) :
            \A j \in 1..Len(call.txs[i].vout) : call.txs[i].vout[j].value > 0

\* C14: on the chain made by create A, send A B SendAmount --mine succeeds
\* and afterwards the balance of A is 2 * SUBSIDY - SendAmount (16) and the
\* balance of B is SendAmount (4).
C14_SendMinedBalances ==
    [][(Cardinality(DOMAIN blocks) = 1 /\ CmdSend(1, 2, SendAmount, TRUE)) =>
          /\ call'.result = "Ok"
          /\ get_balance(utxos', hash_pub_key(PublicKey(1)))
                 = 2 * SUBSIDY - SendAmount
          /\ get_balance(utxos', hash_pub_key(PublicKey(2))) = SendAmount]_vars

\* C28: a transaction built by new_UTXO with selection total acc has one
\* input per selected (txid, vout), a first output of value amount to the
\* recipient, and a change output of value acc - amount to the sender
\* exactly when acc > amount, so the sum of its output values equals acc.
C28_BuiltTransactionShape ==
    [][LET BuiltFrom(tx, sel, from, to, amount) ==
               /\ Len(tx.vin) = Len(sel.picked)
               /\ \A k \in 1..Len(sel.picked) :
                      Cardinality({i \in 1..Len(tx.vin) :
                                      /\ tx.vin[i].txid = sel.picked[k][1]
                                      /\ tx.vin[i].vout = sel.picked[k][2]}) = 1
               /\ Len(tx.vout) >= 1
               /\ tx.vout[1] = TXOutputNew(amount, get_address(to))
               /\ IF sel.accumulated > amount
                  THEN /\ Len(tx.vout) = 2
                       /\ tx.vout[2] = TXOutputNew(sel.accumulated - amount,
                                                   get_address(from))
                  ELSE Len(tx.vout) = 1
               /\ SumValues(tx.vout) = sel.accumulated
       IN  (/\ call'.op = "send"
            /\ call'.txs # <<>>
            /\ CmdSend(call'.from, call'.to, call'.amount, call'.mine_now))
               => \E db_order \in
                      Orders(SenderKeys(utxos,
                                        hash_pub_key(PublicKey(call'.from)))) :
                      BuiltFrom(call'.txs[1],
                                find_spendable_outputs(
                                    utxos, db_order,
                                    hash_pub_key(PublicKey(call'.from)),
                                    call'.amount),
                                call'.from, call'.to, call'.amount)]_vars

----------------------------------------------------------------------------
(* new_UTXO on a node that follows a peer's chain: every block of the peer is
   handled with a reindex, and send builds a transaction at any time *)

NextSpend ==
    \/ CmdCreateBlockchain(1)
    \/ \E b \in NextBlocks(blocks, tip) : HandleBlock(b, FALSE)
    \/ \E from \in Wallets, to \in Wallets : CmdSend(from, to, SendAmount, FALSE)

SpecSpend == Init /\ [][NextSpend]_vars

\* C32: every input of a transaction built by new_UTXO references, by its
\* (txid, vout), an output of that chain transaction at its original output
\* index that is locked to the sender's public-key hash and that no input
\* already in the chain references, also after earlier outputs of the same
\* transaction have been spent and removed from its UTXO entry.
C32_InputsAreOwnUnspent ==
    (call.op = "send" /\ call.result = "Sent") =>
        \A refs \in {RefsUpTo(LastTxs, Len(LastTxs))} :
            \A i \in 1..Len(call.txs[1].vin) :
                \A vin \in {call.txs[1].vin[i]} :
                    /\ <<vin.txid, vin.vout>> \notin refs
                    /\ \E p \in 1..Len(LastTxs) :
                           /\ LastTxs[p].id = vin.txid
                           /\ vin.vout \in 0..(Len(LastTxs[p].vout) - 1)
                           /\ LastTxs[p].vout[vin.vout + 1].pub_key_hash
                                  = hash_pub_key(PublicKey(call.from))

----------------------------------------------------------------------------
(* find_spendable_outputs on its own, over the stores a chain of received
   blocks can leave in data/utxos *)

\* the stores: under each of at most two keys one or two outputs, each
\* locked to one of two owners, of value -1, SendAmount or the largest value
SpendStores ==
    LET keys    == {GenesisCoinbase(1).id, RewardCoinbase(1).id}
        outputs == [value : {-1, SendAmount, MaxValue},
                    pub_key_hash : {hash_pub_key(PublicKey(w)) : w \in {1, 2}}]
        lists   == {<<o>> : o \in outputs}
                       \cup {<<o, p>> : o \in outputs, p \in outputs}
    IN  UNION {[ks -> lists] : ks \in SUBSET keys}

InitSpendable ==
    /\ blocks = <<>>
    /\ last = None
    /\ tip = NoHash
    /\ utxos \in SpendStores
    /\ call = NoCall
    /\ pow = PowIdle
    /\ wal = WalIdle
    /\ net = NetIdle
    /\ mtx = MtxIdle
    /\ thr = ThrIdle

\* one call of find_spendable_outputs(address, amount); an overflowing
\* accumulated += value panics in a build with overflow checks and wraps
\* in one without
FindSpendableOutputs(address, amount, order, overflow_checks) ==
    /\ order \in Orders(DOMAIN utxos)
    /\ \E r \in {find_spendable_outputs(utxos, order, address, amount)} :
           call' = [op |-> "find_spendable_outputs",
                    result |-> IF r.overflowed /\ overflow_checks
                               THEN "panic" ELSE "Ok",
                    txs |-> <<>>, address |-> address, amount |-> amount,
                    accumulated |-> r.accumulated, picked |-> r.picked]
    /\ UNCHANGED <<blocks, last, tip, utxos, pow, wal, net, mtx, thr>>

NextSpendable ==
    \E address \in {hash_pub_key(PublicKey(w)) : w \in {1, 2}},
       amount \in {0, SendAmount + 1, MaxValue},
       order \in UNION {Orders(ks) : ks \in SUBSET DOMAIN utxos},
       overflow_checks \in BOOLEAN :
        FindSpendableOutputs(address, amount, order, overflow_checks)

SpecSpendable == InitSpendable /\ [][NextSpendable]_vars

\* C27: find_spendable_outputs(pkh, amount) returns (acc, map) such that
\* every selected entry is an output locked to pkh in the UTXO store, acc is
\* the sum of the values of the selected outputs, no output is selected once
\* acc has reached amount, and acc >= amount whenever the outputs locked to
\* pkh total at least amount.
C27_SpendableSelection ==
    LET PickedValue(p) == utxos[p[1]][p[2] + 1].value
        PickedSum(n) == SumSeq([i \in 1..n |-> PickedValue(call.picked[i])])
    IN  (call.op = "find_spendable_outputs" /\ call.result = "Ok") =>
            /\ \A i \in 1..Len(call.picked) :
                   /\ call.picked[i][1] \in DOMAIN utxos
                   /\ call.picked[i][2] + 1
                          \in 1..Len(utxos[call.picked[i][1]])
                   /\ utxos[call.picked[i][1]][call.picked[i][2] + 1]
                          .pub_key_hash = call.address
                   /\ \A j \in 1..Len(call.picked) :
                          call.picked[i] = call.picked[j] => i = j
            /\ call.accumulated = PickedSum(Len(call.picked))
            /\ \A i \in 1..Len(call.picked) : PickedSum(i - 1) < call.amount
            /\ get_balance(utxos, call.address) >= call.amount
                   => call.accumulated >= call.amount

----------------------------------------------------------------------------
(* Proof of work: Block::new and its nonce loop *)

TARGET_LEN == 4

\* the nonce is a signed integer of NonceBits bits (32 in the code)
NonceBits == 4
MinNonce == -(2 ^ (NonceBits - 1))
MaxNonce == 2 ^ (NonceBits - 1) - 1

\* the characters of hasher.result_str(): lower-case hexadecimal digits, of
\* which two stand for all sixteen
HexDigits == {"0", "f"}

\* the character U+0000
NulChar == "NUL"

\* String::from_utf8(vec1) for vec1 of TARGET_LEN zero bytes
Target == [i \in 1..TARGET_LEN |-> NulChar]

\* the values &hasher.result_str()[0..TARGET_LEN] can take
Prefixes == [1..TARGET_LEN -> HexDigits]

\* Block::validate, for the digest prefix of the current nonce
validate(prefix) == prefix = Target

\* Block::new up to the call of run_proof_of_work; the clock gives a
\* timestamp or fails
BlockNew(clock_ok) ==
    /\ pow.pc = "idle"
    /\ pow' = [pc |-> IF clock_ok THEN "loop" ELSE "clock_error",
               nonce |-> 0, prefix |-> <<>>]
    /\ UNCHANGED <<blocks, last, tip, utxos, call, wal, net, mtx, thr>>

\* one test of the loop of run_proof_of_work: the digest of the block with
\* the current nonce has the given prefix.  self.nonce += 1 at the largest
\* nonce panics in a build with overflow checks and wraps in one without.
RunProofOfWork(prefix, overflow_checks) ==
    /\ pow.pc = "loop"
    /\ pow' = IF validate(prefix)
              THEN [pc |-> "done", nonce |-> pow.nonce, prefix |-> prefix]
              ELSE IF pow.nonce < MaxNonce
              THEN [pc |-> "loop", nonce |-> pow.nonce + 1, prefix |-> prefix]
              ELSE IF overflow_checks
              THEN [pc |-> "panic", nonce |-> pow.nonce, prefix |-> prefix]
              ELSE [pc |-> "loop", nonce |-> MinNonce, prefix |-> prefix]
    /\ UNCHANGED <<blocks, last, tip, utxos, call, wal, net, mtx, thr>>

\* the call of Block::new is over: it returned a block or an error, or the
\* thread panicked
BlockNewReturn ==
    /\ pow.pc \in {"done", "clock_error", "panic"}
    /\ pow' = PowIdle
    /\ UNCHANGED <<blocks, last, tip, utxos, call, wal, net, mtx, thr>>

NextPow ==
    \/ \E clock_ok \in BOOLEAN : BlockNew(clock_ok)
    \/ \E prefix \in Prefixes, overflow_checks \in BOOLEAN :
           RunProofOfWork(prefix, overflow_checks)
    \/ BlockNewReturn

\* a running loop goes on running: every test that can be made is made
SpecPow ==
    /\ Init
    /\ [][NextPow]_vars
    /\ WF_vars(\E prefix \in Prefixes, overflow_checks \in BOOLEAN :
                   RunProofOfWork(prefix, overflow_checks))

\* C18: mining terminates: whenever the clock yields a timestamp, Block::new
\* eventually leaves the nonce loop and returns a block.
C18_MiningTerminates == (pow.pc = "loop") ~> (pow.pc = "done")

----------------------------------------------------------------------------
(* Transaction::new_coinbase as a function of its arguments *)

\* memo strings have at most MaxMemo characters
MaxMemo == 3
MemoChars == {"a", "b", "c"}
Memos == UNION {[1..n -> MemoChars] : n \in 0..MaxMemo}

\* a string that is not the base58 form of any address
BadAddress == <<"addr">>
Addresses == {get_address(w) : w \in Wallets} \cup {BadAddress}

\* Address::decode(address) is Ok
AddressDecodes(address) == Len(address) = 2

\* one call of new_coinbase(to, data); rnd is what thread_rng yields.  lock
\* unwraps Address::decode, so an undecodable address panics.
NewCoinbase(to, data, rnd) ==
    /\ call' = IF AddressDecodes(to)
               THEN [op |-> "new_coinbase", result |-> "Ok",
                     txs |-> <<new_coinbase(to, data, rnd)>>,
                     to |-> to, data |-> data]
               ELSE [op |-> "new_coinbase", result |-> "panic",
                     txs |-> <<>>, to |-> to, data |-> data]
    /\ UNCHANGED <<blocks, last, tip, utxos, pow, wal, net, mtx, thr>>

NextCoinbase ==
    \E to \in Addresses, data \in Memos, rnd \in 1..MaxHash :
        NewCoinbase(to, data, rnd)

SpecCoinbase == Init /\ [][NextCoinbase]_vars

\* C19: every transaction new_coinbase(to, memo) returns, for any address and
\* any memo, empty or not, is a coinbase (exactly one input, with empty txid
\* and vout -1) whose input has an empty signature, and has exactly one
\* output, of value SUBSIDY = 10, locked to the public-key hash of to.
C19_CoinbaseShape ==
    (call.op = "new_coinbase" /\ call.txs # <<>>) =>
        LET tx == call.txs[1]
        IN  /\ is_coinbase(tx)
            /\ Len(tx.vin) = 1
            /\ tx.vin[1].txid = <<>>
            /\ tx.vin[1].vout = -1
            /\ tx.vin[1].signature = <<>>
            /\ Len(tx.vout) = 1
            /\ tx.vout[1].value = 10
            /\ tx.vout[1].value = SUBSIDY
            /\ tx.vout[1].pub_key_hash = AddressDecode(call.to)
            /\ \E w \in Wallets :
                   /\ call.to = get_address(w)
                   /\ tx.vout[1].pub_key_hash = hash_pub_key(PublicKey(w))

\* C19 witness: new_coinbase has returned a transaction for an empty memo
C19_Witness ==
    /\ call.op = "new_coinbase"
    /\ call.result = "Ok"
    /\ call.data = <<>>
    /\ Len(call.txs) = 1

----------------------------------------------------------------------------
(* Wallets: the wallet set and its sled store data/wallets (wallets.rs)     *)
(* wal.db is the store, from key bytes to value bytes; wal.mem is the      *)
(* process's Wallets value (None before Wallets::new), a map from address  *)
(* to wallet; wal.created records what create_wallet has returned, and     *)
(* wal.since the addresses that were in the store when wal.mem was loaded.  *)

\* Wallet::new from the random seed w
Wallet(w) == [secret_key |-> SecretKey(w), public_key |-> PublicKey(w)]

\* Wallet::get_address
WalletAddress(wallet) == <<"addr", hash_pub_key(wallet.public_key)>>

\* address.as_bytes() as a sled key, and String::from_utf8 of a key
AsBytes(address) == <<"utf8">> \o address
FromUtf8(bytes) ==
    IF Len(bytes) >= 1 /\ bytes[1] = "utf8" THEN Some(Tail(bytes)) ELSE None

\* a wallet whose two fields are read in the other order
deserialize_Swapped(data) ==
    Some([secret_key |-> SubSeq(data, data[1] + 3, Len(data)),
          public_key |-> SubSeq(data, 2, data[1] + 1)])

\* bincode: each Vec<u8> is its length followed by its bytes
serialize(wallet) ==
    <<Len(wallet.secret_key)>> \o wallet.secret_key
        \o <<Len(wallet.public_key)>> \o wallet.public_key

\* bincode deserialize::<Wallet>: Some(wallet), or None for an error
deserialize(data) ==
    IF Len(data) < 1 \/ Len(data) < data[1] + 2 THEN None
    ELSE LET n1   == data[1]
             rest == SubSeq(data, n1 + 2, Len(data))
         IN  IF Len(rest) < rest[1] + 1 THEN None
             ELSE Some([secret_key |-> SubSeq(data, 2, n1 + 1),
                        public_key |-> SubSeq(rest, 2, rest[1] + 1)])

\* Wallets::get_wallet on the map wallets
get_wallet(wallets, address) ==
    IF address \in DOMAIN wallets THEN Some(wallets[address]) ELSE None

\* the map Wallets::new builds from the store
LoadedWallets(db) ==
    [address \in {FromUtf8(k)[1] : k \in DOMAIN db} |->
        deserialize(db[AsBytes(address)])[1]]

\* Wallets::new; open_ok is whether sled::open succeeds
WalletsNew(open_ok) ==
    \E loads \in {/\ open_ok
                   /\ \A k \in DOMAIN wal.db :
                          /\ FromUtf8(k) # None
                          /\ deserialize(wal.db[k]) # None} :
        /\ wal' = IF loads
                  THEN [wal EXCEPT !.mem = Some(LoadedWallets(wal.db)),
                                   !.since = {FromUtf8(k)[1] :
                                                 k \in DOMAIN wal.db}]
                  ELSE [wal EXCEPT !.mem = None, !.since = {}]
        /\ call' = [op |-> "wallets_new",
                    result |-> IF loads THEN "Ok" ELSE "Err", txs |-> <<>>]
        /\ UNCHANGED <<blocks, last, tip, utxos, pow, net, mtx, thr>>

\* Wallets::create_wallet; w is the random seed Wallet::new draws
CreateWallet(w) ==
    /\ wal.mem # None
    /\ \E address \in {WalletAddress(Wallet(w))} :
           /\ wal' = [wal EXCEPT
                         !.mem = Some((address :> Wallet(w)) @@ wal.mem[1]),
                         !.created = (address :> Wallet(w)) @@ wal.created]
           /\ call' = [op |-> "create_wallet", result |-> address,
                       txs |-> <<>>]
    /\ UNCHANGED <<blocks, last, tip, utxos, pow, net, mtx, thr>>

\* Wallets::save_all: the pairs are inserted in the map's iteration order;
\* written is how many inserts succeed (all of them when nothing fails, none
\* when sled::open fails)
SaveAll(order, written) ==
    /\ wal.mem # None
    /\ order \in Orders(DOMAIN wal.mem[1])
    /\ written \in 0..Len(order)
    /\ wal' = [wal EXCEPT !.db =
                  [k \in {AsBytes(order[i]) : i \in 1..written} |->
                       serialize(wal.mem[1][Tail(k)])] @@ wal.db]
    /\ call' = [op |-> "save_all",
                result |-> IF written = Len(order) THEN "Ok" ELSE "Err",
                txs |-> <<>>]
    /\ UNCHANGED <<blocks, last, tip, utxos, pow, net, mtx, thr>>

\* a get_wallet(address) call on the process's wallet set
GetWallet(address) ==
    /\ wal.mem # None
    /\ call' = [op |-> "get_wallet", result |-> "Ok", txs |-> <<>>,
                address |-> address,
                wallet |-> get_wallet(wal.mem[1], address),
                since |-> wal.since, created |-> wal.created]
    /\ UNCHANGED <<blocks, last, tip, utxos, pow, wal, net, mtx, thr>>

NextWallets ==
    \/ \E open_ok \in BOOLEAN : WalletsNew(open_ok)
    \/ \E w \in Wallets : CreateWallet(w)
    \/ \E order \in Orders(IF wal.mem = None THEN {} ELSE DOMAIN wal.mem[1]) :
           \E written \in 0..Len(order) : SaveAll(order, written)
    \/ \E w \in Wallets : GetWallet(WalletAddress(Wallet(w)))

SpecWallets == Init /\ [][NextWallets]_vars

\* C20: a wallet set loaded by Wallets::new after create_wallet returned
\* address a and save_all wrote a returns from get_wallet(a) a wallet equal
\* to the created one, for a and for every address saved earlier; get_wallet
\* of an address that create_wallet never returned gives None.
C20_WalletRoundTrip ==
    call.op = "get_wallet" =>
        /\ call.address \in call.since =>
               /\ call.address \in DOMAIN call.created
               /\ call.wallet = Some(call.created[call.address])
        /\ call.address \notin DOMAIN call.created => call.wallet = None

\* C20 witness: get_wallet has returned a wallet that was created, saved
\* and loaded again, while another wallet saved before it is in the store
C20_Witness ==
    /\ call.op = "get_wallet"
    /\ call.address \in call.since
    /\ call.wallet # None
    /\ Cardinality(call.since) = 2

----------------------------------------------------------------------------
(* The P2P server (server.rs): two nodes and the messages between them.    *)
(* net.nodes[n] is the state of node n: its Server fields, its ServerInner *)
(* record, and its chain and UTXO stores.  net.msgs holds the messages     *)
(* written to a connection and not yet handled.  A connection is handled   *)
(* in one step; net.last records the last one handled: the messages it     *)
(* wrote and the addresses to which its connects failed.                   *)

\* N1 listens on the seed port and holds the longer chain; N2 is a miner
\* started with the genesis block only
Nodes == {1, 2}
Port(n) == IF n = 1 THEN "3000" ELSE "3001"

\* format!("localhost:{}", port): the host part and the text after the colon
NodeAddress(port) == <<"localhost:", port>>

\* the literal "localhost: 3000": the text after the colon starts with a space
KNOWN_NODE1 == <<"localhost:", " 3000">>

\* an address on which nothing listens
DownAddress == NodeAddress("3002")

\* the text after the colon parses as a u16, as TcpStream::connect requires
ParsesAsPort(text) == text \in {"3000", "3001", "3002"}

\* number of messages written to the nodes by peers that are not modelled
MaxClient == 2

GenesisBlock == Block(<<GenesisCoinbase(1)>>, NoHash, 0, <<1>>)
SecondBlock == Block(<<MinerCoinbase(2, 1)>>, <<1>>, 1, <<2>>)

\* Server::new(port, miner_address, utxo) on the chain store with LAST lastv
ServerNew(port, miner_address, store, lastv) ==
    [node_address |-> NodeAddress(port),
     mining_address |-> miner_address,
     known_nodes |-> {KNOWN_NODE1},
     blocks_in_transit |-> <<>>,
     mempool |-> <<>>,
     blocks |-> store,
     last |-> Some(lastv),
     utxos |-> reindex(store, lastv),
     started |-> FALSE]

NoHandler ==
    [node |-> 0, cmd |-> "none", result |-> "none", sent |-> {}, failed |-> {},
     transaction |-> None, address_from |-> <<>>]

InitNet ==
    /\ blocks = <<>>
    /\ last = None
    /\ tip = NoHash
    /\ utxos = <<>>
    /\ call = NoCall
    /\ pow = PowIdle
    /\ wal = WalIdle
    /\ mtx = MtxIdle
    /\ thr = ThrIdle
    /\ net = [nodes |-> [n \in Nodes |->
                  IF n = 1
                  THEN ServerNew(Port(n), <<>>,
                           [k \in {<<1>>, <<2>>} |->
                               IF k = <<1>> THEN GenesisBlock ELSE SecondBlock],
                           <<2>>)
                  ELSE ServerNew(Port(n), get_address(2),
                           [k \in {<<1>>} |-> GenesisBlock], <<1>>)],
              msgs |-> {},
              last |-> NoHandler,
              clients |-> 0]

\* a message for the listener at address to; every payload field is present,
\* the ones a command does not carry are left at their defaults
Msg(to, cmd, address_from) ==
    [to |-> to, cmd |-> cmd, address_from |-> address_from, best_height |-> 0,
     kind |-> "", id |-> NoHash, items |-> <<>>, block |-> None,
     transaction |-> None, addrs |-> {}]

\* TcpStream::connect(addr) succeeds: the port parses and a node listens there
Listening(addr) ==
    /\ ParsesAsPort(addr[2])
    /\ \E n \in Nodes : net.nodes[n].started /\ net.nodes[n].node_address = addr

\* the state a handler works on: the node, the messages handed to send_data
\* (tried), the ones written to a connection (sent), the addresses whose
\* connect failed, and what the handler returns
Begin(node) ==
    [node |-> node, tried |-> {}, sent |-> {}, failed |-> {}, result |-> "Ok"]

\* a send_data that leaves known_nodes alone when the connect fails
send_data_Keeps(s, addr, msg) ==
    LET s0 == [s EXCEPT !.tried = @ \cup {msg}]
    IN  IF addr = s.node.node_address THEN s0
        ELSE IF Listening(addr) THEN [s0 EXCEPT !.sent = @ \cup {msg}]
        ELSE [s0 EXCEPT !.failed = @ \cup {addr}]

\* send_data(addr, data), remove_node included
send_data(s, addr, msg) ==
    LET s0 == [s EXCEPT !.tried = @ \cup {msg}]
    IN  IF addr = s.node.node_address THEN s0
        ELSE IF Listening(addr) THEN [s0 EXCEPT !.sent = @ \cup {msg}]
        ELSE [s0 EXCEPT !.node.known_nodes = @ \ {addr},
                        !.failed = @ \cup {addr}]

send_get_blocks(s, addr) ==
    send_data(s, addr, Msg(addr, "getblocks", s.node.node_address))

send_get_data(s, addr, kind, id) ==
    send_data(s, addr, [Msg(addr, "getdata", s.node.node_address)
                           EXCEPT !.kind = kind, !.id = id])

send_block(s, addr, block) ==
    send_data(s, addr, [Msg(addr, "block", s.node.node_address)
                           EXCEPT !.block = Some(block)])

send_inv(s, addr, kind, items) ==
    send_data(s, addr, [Msg(addr, "inv", s.node.node_address)
                           EXCEPT !.kind = kind, !.items = items])

send_version(s, addr) ==
    send_data(s, addr, [Msg(addr, "version", s.node.node_address)
                           EXCEPT !.best_height =
                               get_best_height(s.node.blocks, s.node.last)])

send_addr(s, addr) ==
    send_data(s, addr, [Msg(addr, "addr", <<>>)
                           EXCEPT !.addrs = s.node.known_nodes])

send_tx(s, addr, tx) ==
    send_data(s, addr, [Msg(addr, "tx", s.node.node_address)
                           EXCEPT !.transaction = Some(tx)])

\* request_blocks: send_get_blocks to every node of the set
RECURSIVE request_blocks(_, _)
request_blocks(s, nodes) ==
    IF nodes = {} THEN s
    ELSE LET node == CHOOSE x \in nodes : TRUE
         IN  request_blocks(send_get_blocks(s, node), nodes \ {node})

\* send_inv to every node of the set
RECURSIVE SendInvAll(_, _, _, _)
SendInvAll(s, nodes, kind, items) ==
    IF nodes = {} THEN s
    ELSE LET node == CHOOSE x \in nodes : TRUE
         IN  SendInvAll(send_inv(s, node, kind, items), nodes \ {node},
                        kind, items)

\* Blockchain::get_block_hashes
get_block_hashes(store, start) ==
    LET bs == Iter(store, start) IN [i \in 1..Len(bs) |-> bs[i].hash]

\* Server::add_block: Blockchain::add_block on the node's chain
ServerAddBlock(node, block) ==
    IF IsDuplicate(node.blocks, block) THEN node
    ELSE LET store == InsertBlock(node.blocks, block)
             last_height == get_best_height(store, node.last)
         IN  [node EXCEPT !.blocks = store,
                          !.last = IF TipMoves(block, last_height)
                                   THEN Some(block.hash) ELSE @]

handle_address(s, msg) ==
    [s EXCEPT !.node.known_nodes = @ \cup msg.addrs]

\* a handle_block that leaves the UTXO store alone after the last block
handle_block_NeverReindexes(s, msg) ==
    LET s1 == [s EXCEPT !.node = ServerAddBlock(@, msg.block[1])]
    IN  IF Len(s1.node.blocks_in_transit) > 0
        THEN [send_get_data(s1, msg.address_from, "block",
                            s1.node.blocks_in_transit[1])
                 EXCEPT !.node.blocks_in_transit = Tail(@)]
        ELSE s1

handle_block(s, msg) ==
    LET s1 == [s EXCEPT !.node = ServerAddBlock(@, msg.block[1])]
        in_transit == s1.node.blocks_in_transit
    IN  IF Len(in_transit) > 0
        THEN [send_get_data(s1, msg.address_from, "block", in_transit[1])
                 EXCEPT !.node.blocks_in_transit = Tail(in_transit)]
        ELSE [s1 EXCEPT !.node.utxos =
                 reindex(s1.node.blocks, s1.node.last[1])]

handle_get_blocks(s, msg) ==
    send_inv(s, msg.address_from, "block",
             get_block_hashes(s.node.blocks, s.node.last[1]))

\* the loop of handle_transaction on the local copy mempool, visited in
\* order; rnd is the random key of the coinbase; fuel bounds the rounds
RECURSIVE MiningLoop(_, _, _, _, _)
MiningLoop(s, mempool, order, rnd, fuel) ==
    LET ids   == SelectSeq(order, LAMBDA id : id \in DOMAIN mempool)
        store == s.node.blocks
        start == s.node.last[1]
        verify_tx(id) == verify_transaction(store, start, mempool[id])
    IN  IF \E i \in 1..Len(ids) : verify_tx(ids[i]) \notin {"true", "false"}
        THEN [s EXCEPT !.result = "Err"]
        ELSE LET ok == SelectSeq(ids, LAMBDA id : verify_tx(id) = "true")
             IN  IF ok = <<>> THEN s
                 ELSE LET cbtx == new_coinbase(s.node.mining_address, <<>>, rnd)
                          txs  == [i \in 1..Len(ok) |-> mempool[ok[i]]]
                                      \o <<cbtx>>
                          left == [id \in DOMAIN mempool
                                       \ {txs[i].id : i \in 1..Len(txs)}
                                     |-> mempool[id]]
                      IN  IF VerifyAll(store, start, txs) # "true"
                          THEN [s EXCEPT !.result = "Err"]
                          ELSE LET new_block ==
                                       Block(txs, start,
                                             NewBlockHeight(store, s.node.last),
                                             NewHash(store))
                                   mined == InsertBlock(store, new_block)
                                   s1 == [s EXCEPT
                                            !.node.blocks = mined,
                                            !.node.last = Some(new_block.hash),
                                            !.node.utxos =
                                                reindex(mined, new_block.hash)]
                                   s2 == SendInvAll(s1,
                                            s1.node.known_nodes
                                                \ {s1.node.node_address},
                                            "block", <<new_block.hash>>)
                               IN  IF DOMAIN left = {}
                                   THEN [s2 EXCEPT !.node.mempool = <<>>]
                                   ELSE IF fuel = 0
                                   THEN [s2 EXCEPT !.result = "diverges"]
                                   ELSE MiningLoop(s2, left, order, rnd,
                                                   fuel - 1)

handle_transaction(s, msg, order, rnd) ==
    LET tx == msg.transaction[1]
        s1 == [s EXCEPT !.node.mempool = (tx.id :> tx) @@ @]
        known_nodes == s1.node.known_nodes
    IN  IF s1.node.node_address = KNOWN_NODE1
        THEN SendInvAll(s1, known_nodes \ {s1.node.node_address,
                                           msg.address_from},
                        "tx", <<tx.id>>)
        ELSE IF /\ Cardinality(DOMAIN s1.node.mempool) >= 1
                /\ s1.node.mining_address # <<>>
        THEN MiningLoop(s1, s1.node.mempool, order, rnd, 1)
        ELSE s1

\* a handle_invite that appends to the pending list instead of replacing it
handle_invite_Extends(s, msg) ==
    [send_get_data(s, msg.address_from, msg.kind, msg.items[1])
        EXCEPT !.node.blocks_in_transit =
            @ \o SelectSeq(msg.items, LAMBDA b : b # msg.items[1])]

handle_invite(s, msg) ==
    IF msg.items = <<>> THEN [s EXCEPT !.result = "panic"]
    ELSE IF msg.kind = "block"
    THEN [send_get_data(s, msg.address_from, "block", msg.items[1])
             EXCEPT !.node.blocks_in_transit =
                 SelectSeq(msg.items, LAMBDA b : b # msg.items[1])]
    ELSE IF msg.kind = "tx"
    THEN IF /\ msg.items[1] \in DOMAIN s.node.mempool
            /\ s.node.mempool[msg.items[1]].id # NoHash
         THEN s
         ELSE send_get_data(s, msg.address_from, "tx", msg.items[1])
    ELSE s

handle_get_data(s, msg) ==
    IF msg.kind = "block"
    THEN IF HasBlock(s.node.blocks, msg.id)
         THEN send_block(s, msg.address_from, s.node.blocks[msg.id])
         ELSE [s EXCEPT !.result = "panic"]
    ELSE IF msg.kind = "tx"
    THEN IF msg.id \in DOMAIN s.node.mempool
         THEN send_tx(s, msg.address_from, s.node.mempool[msg.id])
         ELSE [s EXCEPT !.result = "panic"]
    ELSE s

\* a handle_version that answers every version of another height with its own
handle_version_Echo(s, msg) ==
    LET s1 == IF get_best_height(s.node.blocks, s.node.last) # msg.best_height
              THEN send_version(s, msg.address_from)
              ELSE s
        s2 == send_addr(s1, msg.address_from)
    IN  [s2 EXCEPT !.node.known_nodes = @ \cup {msg.address_from}]

\* a handle_version that also asks for blocks when the heights are equal
handle_version_AskOnEqual(s, msg) ==
    LET s1 == IF get_best_height(s.node.blocks, s.node.last) <= msg.best_height
              THEN send_get_blocks(s, msg.address_from)
              ELSE send_version(s, msg.address_from)
        s2 == send_addr(s1, msg.address_from)
    IN  [s2 EXCEPT !.node.known_nodes = @ \cup {msg.address_from}]

handle_version(s, msg) ==
    LET my_best_height == get_best_height(s.node.blocks, s.node.last)
        s1 == IF my_best_height < msg.best_height
              THEN send_get_blocks(s, msg.address_from)
              ELSE IF my_best_height > msg.best_height
              THEN send_version(s, msg.address_from)
              ELSE s
        s2 == send_addr(s1, msg.address_from)
    IN  IF msg.address_from \notin s2.node.known_nodes
        THEN [s2 EXCEPT !.node.known_nodes = @ \cup {msg.address_from}]
        ELSE s2

\* what a finished thread of node n leaves behind
Finish(n, s, cmd, handled, transaction, address_from) ==
    net' = [net EXCEPT !.nodes[n] = s.node,
                       !.msgs = (@ \ handled) \cup s.sent,
                       !.last = [node |-> n, cmd |-> cmd, result |-> s.result,
                                 sent |-> s.sent, failed |-> s.failed,
                                 transaction |-> transaction,
                                 address_from |-> address_from]]

\* Server::start of node n: the listener, and the thread that announces the
\* node after a second
Start(n) ==
    /\ ~net.nodes[n].started
    /\ LET s == Begin([net.nodes[n] EXCEPT !.started = TRUE])
       IN  Finish(n,
                  IF get_best_height(s.node.blocks, s.node.last) = -1
                  THEN request_blocks(s, s.node.known_nodes)
                  ELSE send_version(s, KNOWN_NODE1),
                  "start", {}, None, <<>>)
    /\ UNCHANGED <<blocks, last, tip, utxos, call, pow, wal, mtx, thr>>

\* handle_connection of the node listening at msg.to; order is the iteration
\* order of the mempool and rnd the random key, used by handle_transaction
HandleConnection(msg, order, rnd) ==
    /\ msg \in net.msgs
    /\ \E n \in Nodes :
          /\ net.nodes[n].started
          /\ net.nodes[n].node_address = msg.to
          /\ LET s == Begin(net.nodes[n])
             IN  Finish(n,
                        CASE msg.cmd = "addr" -> handle_address(s, msg)
                          [] msg.cmd = "block" -> handle_block(s, msg)
                          [] msg.cmd = "inv" -> handle_invite(s, msg)
                          [] msg.cmd = "getblocks" -> handle_get_blocks(s, msg)
                          [] msg.cmd = "getdata" -> handle_get_data(s, msg)
                          [] msg.cmd = "tx" ->
                                 handle_transaction(s, msg, order, rnd)
                          [] msg.cmd = "version" -> handle_version(s, msg),
                        msg.cmd, {msg}, msg.transaction, msg.address_from)
    /\ UNCHANGED <<blocks, last, tip, utxos, call, pow, wal, mtx, thr>>

\* a transaction as new_UTXO builds and signs it, and one with no input
SignedSpend == SpendOf(1, GenesisCoinbase(1), 0, 2, SendAmount)
NoInputTx ==
    LET tx == [id |-> NoHash, vin |-> <<>>,
               vout |-> <<TXOutputNew(SendAmount, get_address(2))>>]
    IN  [tx EXCEPT !.id = TxHash(tx)]

\* what a peer that is not modelled writes to a node: a transaction, the
\* version message of a peer at some address, or the getblocks message or
\* the block inventory of a peer that has stopped listening
ClientMessages ==
    {Msg(NodeAddress(Port(n)), "getblocks", DownAddress) : n \in Nodes}
    \cup
    {[Msg(NodeAddress(Port(n)), "inv", DownAddress)
         EXCEPT !.kind = "block", !.items = <<<<2>>, <<1>>, <<2>>>>] :
        n \in Nodes}
    \cup
    {[Msg(NodeAddress(Port(n)), "tx", DownAddress)
         EXCEPT !.transaction = Some(tx)] :
        n \in Nodes, tx \in {SignedSpend, NoInputTx}}
    \cup
    {[Msg(NodeAddress(Port(n)), "version", from)
         EXCEPT !.best_height = h] :
        n \in Nodes, from \in {NodeAddress(Port(m)) : m \in Nodes}
                                 \cup {DownAddress},
        h \in Heights}

Client(msg) ==
    /\ net.clients < MaxClient
    /\ Listening(msg.to)
    /\ msg.address_from # msg.to
    /\ net' = [net EXCEPT !.msgs = @ \cup {msg}, !.clients = @ + 1]
    /\ UNCHANGED <<blocks, last, tip, utxos, call, pow, wal, mtx, thr>>

\* the iteration orders of a mempool that holds at most the client's
\* transactions
MempoolOrders == Orders({SignedSpend.id, NoInputTx.id})

Handle ==
    \E msg \in net.msgs :
        \E order \in IF msg.cmd = "tx" THEN MempoolOrders ELSE {<<>>},
           rnd \in IF msg.cmd = "tx" THEN 1..MaxHash ELSE {0} :
            HandleConnection(msg, order, rnd)

NextNet ==
    \/ \E n \in Nodes : Start(n)
    \/ Handle
    \/ \E msg \in ClientMessages : Client(msg)

SpecNet == InitNet /\ [][NextNet]_vars

\* every started thread runs and every written message is handled
SpecNetFair ==
    SpecNet /\ WF_vars(\E n \in Nodes : Start(n)) /\ WF_vars(Handle)

----------------------------------------------------------------------------
(* Properties of the P2P server *)

BalanceAt(n, w) == get_balance(net.nodes[n].utxos, hash_pub_key(PublicKey(w)))

\* C15: with N1 listening on the seed port with its chain and N2 started with
\* a shorter chain and the default known-node set, under fair delivery the
\* nodes eventually reach a state where N2's best height equals N1's and
\* N2's UTXO store gives every address the balance N1's gives it.
C15_NodesConverge ==
    (net.nodes[1].started /\ net.nodes[2].started) ~>
        (/\ get_best_height(net.nodes[2].blocks, net.nodes[2].last)
                = get_best_height(net.nodes[1].blocks, net.nodes[1].last)
         /\ \A w \in Wallets : BalanceAt(2, w) = BalanceAt(1, w))

\* the mining node N2 has handled a tx message
TxHandledByMiner ==
    /\ net.last.cmd = "tx"
    /\ net.last.node = 2
    /\ net.nodes[2].mining_address # <<>>
    /\ net.nodes[2].node_address # KNOWN_NODE1

\* the mining node's tx handler has finished with tx in a block of its chain,
\* the block announced to every known peer, and the mempool empty
MinedAndAnnounced(tx) ==
    /\ net.last.node = 2
    /\ net.last.cmd = "tx"
    /\ net.nodes[2].mempool = <<>>
    /\ \E h \in DOMAIN net.nodes[2].blocks :
          /\ \E i \in 1..Len(net.nodes[2].blocks[h].transactions) :
                 net.nodes[2].blocks[h].transactions[i] = tx
          /\ \A peer \in net.nodes[2].known_nodes
                             \ {net.nodes[2].node_address} :
                 \E msg \in net.last.sent :
                     /\ msg.to = peer
                     /\ msg.cmd = "inv"
                     /\ msg.kind = "block"
                     /\ msg.items = <<h>>

\* C16: whenever a node with a non-empty mining_address, whose node_address
\* is not KNOWN_NODE1, handles a tx message, eventually a new block holding
\* that transaction is appended to its chain, an inv("block") with the
\* block's hash is sent to every known peer other than itself, and the
\* mempool is empty when the handler finishes.
C16_TxIsMined ==
    TxHandledByMiner ~>
        (TxHandledByMiner /\ MinedAndAnnounced(net.last.transaction[1]))

\* C17: whenever a connect to peer P fails while a node handles a message,
\* the handler is not aborted and P is not in known_nodes once the handler
\* has finished, for every handler, handle_version included.
C17_FailedPeerForgotten ==
    net.last.failed # {} =>
        /\ net.last.result = "Ok"
        /\ \A peer \in net.last.failed :
               peer \notin net.nodes[net.last.node].known_nodes

\* the peer whose version message the last handler handled, if it was one
VersionSender ==
    IF net.last.cmd = "version" THEN {net.last.address_from} ELSE {}

\* C17 amended: whenever a connect to peer P fails while a node handles a
\* message, the handler is not aborted, and P is not in known_nodes once the
\* handler has finished unless the handler is handle_version and P is the
\* sender of the version message, which handle_version adds after its sends.
C17_FailedPeerForgottenUnlessSender ==
    net.last.failed # {} =>
        /\ net.last.result = "Ok"
        /\ \A peer \in net.last.failed \ VersionSender :
               peer \notin net.nodes[net.last.node].known_nodes
        /\ \A peer \in net.last.failed \cap VersionSender :
               peer \in net.nodes[net.last.node].known_nodes

\* C17 witness: a handler other than handle_version has finished after a
\* connect of its send failed
C17_Witness ==
    /\ net.last.cmd = "getblocks"
    /\ net.last.failed = {DownAddress}
    /\ net.last.result = "Ok"

\* the node listening at the address a message is for
Listener(msg) == CHOOSE n \in Nodes : net.nodes[n].node_address = msg.to

\* some message of command cmd was handed to send_data for address addr
TriedTo(s, cmd, addr) == \E m \in s.tried : m.cmd = cmd /\ m.to = addr

\* C21: on a version message from peer P a node sends getblocks to P iff its
\* own best height is lower than P's, sends its version to P iff its best
\* height is higher, sends neither when the heights are equal, always sends
\* addr to P, and P is in known_nodes when the handler finishes.
C21_VersionReplies ==
    [][\A msg \in net.msgs :
          (msg.cmd = "version" /\ HandleConnection(msg, <<>>, 0)) =>
              LET node == net.nodes[Listener(msg)]
                  mine == get_best_height(node.blocks, node.last)
                  s    == handle_version(Begin(node), msg)
                  P    == msg.address_from
              IN  /\ TriedTo(s, "getblocks", P) <=> mine < msg.best_height
                  /\ TriedTo(s, "version", P) <=> mine > msg.best_height
                  /\ mine = msg.best_height =>
                         /\ ~TriedTo(s, "getblocks", P)
                         /\ ~TriedTo(s, "version", P)
                  /\ TriedTo(s, "addr", P)
                  /\ \A m \in s.tried : m.to = P
                  /\ P \in net'.nodes[Listener(msg)].known_nodes]_vars

\* C21 witness: a node has handled the version message of a peer with a
\* higher best height: getblocks and addr were written to the peer, and the
\* peer is in known_nodes
C21_Witness ==
    /\ net.last.cmd = "version"
    /\ net.last.address_from \in net.nodes[net.last.node].known_nodes
    /\ \E m \in net.last.sent :
           m.cmd = "getblocks" /\ m.to = net.last.address_from
    /\ \E m \in net.last.sent : m.cmd = "addr" /\ m.to = net.last.address_from

\* the sequence items without the occurrences of x, in the same order
RECURSIVE Without(_, _)
Without(items, x) ==
    IF items = <<>> THEN <<>>
    ELSE (IF Head(items) = x THEN <<>> ELSE <<Head(items)>>)
             \o Without(Tail(items), x)

\* C22: on an inv message of kind "block" with a non-empty item list the node
\* sends getdata("block", items[0]) to the sender, and afterwards
\* blocks_in_transit is items with every occurrence of items[0] removed, in
\* the same order, whatever blocks_in_transit held before.
C22_InvReplacesInTransit ==
    [][\A msg \in net.msgs :
          (/\ msg.cmd = "inv"
           /\ msg.kind = "block"
           /\ msg.items # <<>>
           /\ HandleConnection(msg, <<>>, 0)) =>
              /\ \E m \in handle_invite(Begin(net.nodes[Listener(msg)]),
                                        msg).tried :
                     /\ m.cmd = "getdata"
                     /\ m.to = msg.address_from
                     /\ m.kind = "block"
                     /\ m.id = msg.items[1]
              /\ net'.nodes[Listener(msg)].blocks_in_transit
                     = Without(msg.items, msg.items[1])]_vars

\* C22 witness: a node has handled the inventory in which the first hash
\* occurs twice, and one hash is left in transit
C22_Witness ==
    /\ net.last.cmd = "inv"
    /\ net.last.address_from = DownAddress
    /\ net.nodes[net.last.node].blocks_in_transit = <<<<1>>>>

\* C23: on a block message the node first applies add_block; then, if
\* blocks_in_transit is not empty, it sends getdata("block") for the head of
\* the list to the sender, removes exactly that head and does not reindex;
\* if blocks_in_transit is empty it reindexes, so that after the last block
\* of a sync the UTXO store is find_UTXO of the chain walked from LAST.
C23_BlockThenNextOrReindex ==
    [][\A msg \in net.msgs :
          (msg.cmd = "block" /\ HandleConnection(msg, <<>>, 0)) =>
              \A node \in {net.nodes[Listener(msg)]} :
              \A after \in {net'.nodes[Listener(msg)]} :
              \A added \in {ServerAddBlock(node, msg.block[1])} :
              \A s \in {handle_block(Begin(node), msg)} :
                  /\ after.blocks = added.blocks
                  /\ after.last = added.last
                  /\ HasBlock(after.blocks, msg.block[1].hash)
                  /\ IF node.blocks_in_transit # <<>>
                     THEN /\ \E m \in s.tried :
                                 /\ m.cmd = "getdata"
                                 /\ m.to = msg.address_from
                                 /\ m.kind = "block"
                                 /\ m.id = Head(node.blocks_in_transit)
                          /\ after.blocks_in_transit
                                 = Tail(node.blocks_in_transit)
                          /\ after.utxos = node.utxos
                     ELSE /\ s.tried = {}
                          /\ after.blocks_in_transit = <<>>
                          /\ after.utxos
                                 = find_UTXO(after.blocks, after.last[1])]_vars

\* C23 witness: N2 has handled the last block of its sync with N1: nothing is
\* in transit, its LAST is N1's, and its UTXO store holds the outputs of both
\* blocks
C23_Witness ==
    /\ net.last.cmd = "block"
    /\ net.last.node = 2
    /\ net.nodes[2].blocks_in_transit = <<>>
    /\ net.nodes[2].last = net.nodes[1].last
    /\ net.nodes[2].blocks = net.nodes[1].blocks
    /\ net.nodes[2].utxos = find_UTXO(net.nodes[1].blocks, <<2>>)
    /\ Cardinality(DOMAIN net.nodes[2].utxos) = 2

\* the address on which the seed node listens: port 3000 of localhost, the
\* node KNOWN_NODE1 is meant to name
SeedAddress == NodeAddress("3000")

C38_VersionExchangeEnds ==
    [][\A msg \in net.msgs : \A P \in Nodes :
          (/\ msg.cmd = "version"
           /\ HandleConnection(msg, <<>>, 0)
           /\ net.nodes[P].node_address = msg.address_from
           /\ net.nodes[P].started
           /\ get_best_height(net.nodes[P].blocks, net.nodes[P].last)
                  = msg.best_height) =>
              \A node \in {net.nodes[Listener(msg)]} :
              \A s \in {handle_version(Begin(node), msg)} :
              \A mine \in {get_best_height(node.blocks, node.last)} :
                  /\ Cardinality({m \in s.sent : m.cmd = "version"}) <= 1
                  /\ \A m \in s.sent :
                         /\ m.cmd = "getblocks" => mine < msg.best_height
                         /\ m.cmd = "version" => mine > msg.best_height
                         /\ mine = msg.best_height => m.cmd = "addr"
                         /\ m \in net'.msgs
                  /\ \A reply \in {m \in s.sent : m.cmd = "version"} :
                     \A back \in {handle_version(Begin(net'.nodes[P]), reply)} :
                         /\ reply.to = msg.address_from
                         /\ \A m \in back.tried : m.cmd \in {"getblocks", "addr"}
                         /\ TriedTo(back, "getblocks", reply.address_from)]_vars

\* C38 witness: a node has answered the version of a listening peer of lower
\* height with its own version, which is on its way to the peer
C38_Witness ==
    /\ net.last.cmd = "version"
    /\ \E m \in net.last.sent \cap net.msgs, P \in Nodes :
           /\ m.cmd = "version"
           /\ m.to = net.last.address_from
           /\ m.to = net.nodes[P].node_address
           /\ m.best_height > get_best_height(net.nodes[P].blocks, net.nodes[P].last)

----------------------------------------------------------------------------
(* The ServerInner mutex (server.rs): what each connection worker does to  *)
(* the shared record and to the network, step by step.  mtx.holder is the  *)
(* worker that holds the mutex (0 for none) and mtx.prog[w] the steps      *)
(* worker w has still to take.                                             *)

\* a function that accesses the fields without taking the mutex
Guarded_NoLock(steps) == steps

\* self.inner.lock() ... : the guard lives to the end of the statement or of
\* the function, and steps is all that happens before it is dropped
Guarded(steps) == <<<<"lock", "inner">>>> \o steps \o <<<<"unlock", "inner">>>>

\* a point where the code goes one of several ways: the steps of each way
Branch(ways) == <<"branch", ways>>

\* the steps of remove_node and of the accessors of ServerInner, by name.
\* remove_node keeps its guard to the end of the function; verify_tx,
\* mine_block and utxo_reindex are called by server.rs without being defined
\* there, and take the mutex like the accessors that are.
Accessors ==
    LET Read(field) == <<"read", field>>
        Mutate(field) == <<"mutate", field>>
    IN  [remove_node |->
             Guarded(<<Read("known_nodes"),
                       Branch({<<>>, <<Mutate("known_nodes")>>})>>),
         get_known_nodes |-> Guarded(<<Read("known_nodes")>>),
         node_is_known |-> Guarded(<<Read("known_nodes")>>),
         add_nodes |-> Guarded(<<Mutate("known_nodes")>>),
         replace_in_transit |-> Guarded(<<Mutate("blocks_in_transit")>>),
         get_in_transit |-> Guarded(<<Read("blocks_in_transit")>>),
         get_mempool_tx |-> Guarded(<<Read("mempool")>>),
         get_mempool |-> Guarded(<<Read("mempool")>>),
         insert_mempool |-> Guarded(<<Mutate("mempool")>>),
         clear_mempool |-> Guarded(<<Mutate("mempool")>>),
         get_best_height |-> Guarded(<<Read("utxo")>>),
         get_block_hashes |-> Guarded(<<Read("utxo")>>),
         get_block |-> Guarded(<<Read("utxo")>>),
         add_block |-> Guarded(<<Mutate("utxo")>>),
         verify_tx |-> Guarded(<<Read("utxo")>>),
         mine_block |-> Guarded(<<Read("utxo"), Mutate("utxo")>>),
         utxo_reindex |-> Guarded(<<Read("utxo"), Mutate("utxo")>>)]

\* send_data: to the node's own address, connected, or refused
send_data_steps ==
    <<Branch({<<>>,
              <<<<"connect", "tcp">>, <<"write", "tcp">>>>,
              <<<<"connect", "tcp">>>> \o Accessors.remove_node})>>

\* the steps of one handle_connection, by the command received
HandlerPrograms ==
    LET send_version_steps == Accessors.get_best_height \o send_data_steps
        send_addr_steps == Accessors.get_known_nodes \o send_data_steps
        \* handle_address for a list of one address and of two
        handle_address_steps ==
            Accessors.add_nodes \o <<Branch({<<>>, Accessors.add_nodes})>>
        handle_block_steps ==
            Accessors.add_block \o Accessors.get_in_transit
                \o <<Branch({send_data_steps \o Accessors.replace_in_transit,
                             Accessors.utxo_reindex})>>
        handle_get_blocks_steps == Accessors.get_block_hashes \o send_data_steps
        \* handle_invite for kind "block" and for kind "tx", where the
        \* mempool may hold the transaction already
        handle_invite_steps ==
            <<Branch({send_data_steps \o Accessors.replace_in_transit,
                      Accessors.get_mempool_tx
                          \o <<Branch({<<>>, send_data_steps})>>})>>
        handle_get_data_steps ==
            <<Branch({Accessors.get_block, Accessors.get_mempool_tx})>>
                \o send_data_steps
        \* handle_version: the node's height is lower, higher or equal
        handle_version_steps ==
            Accessors.get_best_height
                \o <<Branch({send_data_steps, send_version_steps, <<>>})>>
                \o send_addr_steps
                \o Accessors.node_is_known
                \o <<Branch({<<>>, Accessors.add_nodes})>>
        \* after mine_block: reindex, inv to a peer, clear the mempool
        announce_steps ==
            Accessors.utxo_reindex \o Accessors.get_known_nodes
                \o send_data_steps \o Accessors.clear_mempool
        \* handle_transaction off the seed address: without a mining
        \* address, with no transaction that verifies, with mine_block
        \* returning an error, and with one block mined and announced
        handle_transaction_steps ==
            Accessors.insert_mempool \o Accessors.get_known_nodes
                \o Accessors.get_mempool
                \o <<Branch({<<>>,
                             Accessors.verify_tx
                                 \o <<Branch({<<>>,
                                              Accessors.mine_block
                                                  \o <<Branch({<<>>, announce_steps})>>})>>})>>
    IN  {handle_address_steps, handle_block_steps, handle_get_blocks_steps,
         handle_invite_steps, handle_get_data_steps, handle_version_steps,
         handle_transaction_steps}

\* the worker's next step, when it has one
NextStep(w) == Head(mtx.prog[w])

\* thread::spawn(move || server1.handle_connection(stream))
Accept(w, prog) ==
    /\ mtx.prog[w] = <<>>
    /\ mtx' = [mtx EXCEPT !.prog[w] = prog]
    /\ UNCHANGED <<blocks, last, tip, utxos, call, pow, wal, net, thr>>

\* self.inner.lock(): waits until no worker holds the mutex
Acquire(w) ==
    /\ mtx.prog[w] # <<>>
    /\ NextStep(w)[1] = "lock"
    /\ mtx.holder = 0
    /\ mtx' = [holder |-> w, prog |-> [mtx.prog EXCEPT ![w] = Tail(@)]]
    /\ UNCHANGED <<blocks, last, tip, utxos, call, pow, wal, net, thr>>

\* the guard is dropped
Release(w) ==
    /\ mtx.prog[w] # <<>>
    /\ NextStep(w)[1] = "unlock"
    /\ mtx' = [holder |-> IF mtx.holder = w THEN 0 ELSE mtx.holder,
               prog |-> [mtx.prog EXCEPT ![w] = Tail(@)]]
    /\ UNCHANGED <<blocks, last, tip, utxos, call, pow, wal, net, thr>>

\* a read or a mutation of a field of ServerInner
Access(w) ==
    /\ mtx.prog[w] # <<>>
    /\ NextStep(w)[1] \in {"read", "mutate"}
    /\ mtx' = [mtx EXCEPT !.prog[w] = Tail(@)]
    /\ UNCHANGED <<blocks, last, tip, utxos, call, pow, wal, net, thr>>

\* TcpStream::connect or stream.write
NetworkIO(w) ==
    /\ mtx.prog[w] # <<>>
    /\ NextStep(w)[1] \in {"connect", "write"}
    /\ mtx' = [mtx EXCEPT !.prog[w] = Tail(@)]
    /\ UNCHANGED <<blocks, last, tip, utxos, call, pow, wal, net, thr>>

\* an if, a match or an early return: the worker goes one of the ways
Decide(w) ==
    /\ mtx.prog[w] # <<>>
    /\ NextStep(w)[1] = "branch"
    /\ \E way \in NextStep(w)[2] :
           mtx' = [mtx EXCEPT !.prog[w] = way \o Tail(@)]
    /\ UNCHANGED <<blocks, last, tip, utxos, call, pow, wal, net, thr>>

NextLock ==
    \/ \E w \in Workers, prog \in HandlerPrograms : Accept(w, prog)
    \/ \E w \in Workers : Acquire(w)
    \/ \E w \in Workers : Release(w)
    \/ \E w \in Workers : Access(w)
    \/ \E w \in Workers : NetworkIO(w)
    \/ \E w \in Workers : Decide(w)

SpecLock == Init /\ [][NextLock]_vars

\* C25: every read and every mutation of known_nodes, blocks_in_transit, the
\* mempool and the chain/UTXO handle by a connection worker happens while
\* that worker holds the ServerInner mutex, and no worker holds the mutex
\* while it performs a TCP connect or write.
C25_LockDiscipline ==
    \A w \in Workers :
        mtx.prog[w] # <<>> =>
            /\ NextStep(w)[1] \in {"read", "mutate"} => mtx.holder = w
            /\ NextStep(w)[1] \in {"connect", "write"} => mtx.holder # w

\* C25 witness: one worker holds the mutex and is about to change a field
\* while another, holding nothing, is about to connect
C25_Witness ==
    \E w, v \in Workers :
        /\ w # v
        /\ mtx.prog[w] # <<>>
        /\ mtx.prog[v] # <<>>
        /\ mtx.holder = w
        /\ NextStep(w)[1] = "mutate"
        /\ NextStep(v)[1] = "connect"

----------------------------------------------------------------------------
(* Concurrent tx handlers on the mining node (server.rs:298-354): each     *)
(* connection worker runs handle_transaction one accessor call at a time.  *)
(* thr[w] is worker w's position in the handler and its local variables:   *)
(* the message's transaction, the local copy mempool, the keys the for     *)
(* loop has still to visit, txs, and the number of loop rounds begun.      *)

\* the mining node
Miner == 2

\* number of values the random key of a coinbase is drawn from
MaxKey == 2

\* number of tx messages the mining node accepts
MaxPoolTx == 2

\* the blocks the miner has received after its genesis block: none, a block
\* that carries a transaction whose id field is empty, or a block whose
\* prev_block_hash is its own hash
MinerReceived ==
    LET EmptyIdTx == [id |-> NoHash, vin |-> <<>>, vout |-> <<>>]
    IN  {<<>>,
         <<Block(<<EmptyIdTx>>, <<1>>, 1, <<2>>)>>,
         <<Block(<<>>, <<2>>, 1, <<2>>)>>}

\* the transactions the tx messages carry: two without inputs, to different
\* wallets, and the one new_UTXO builds and signs
PoolTxs ==
    LET tx == [id |-> NoHash, vin |-> <<>>,
               vout |-> <<TXOutputNew(SendAmount, get_address(1))>>]
    IN  {NoInputTx, [tx EXCEPT !.id = TxHash(tx)], SignedSpend}

\* a worker outside handle_transaction
NoThread ==
    [pc |-> "idle", tx |-> None, mempool |-> <<>>, todo |-> <<>>, txs |-> <<>>,
     rounds |-> 0, size |-> 0, new_block |-> NoHash, result |-> "none"]

\* the miner runs on the genesis block alone, or has also received one of
\* the two blocks
InitPool ==
    /\ blocks = <<>>
    /\ last = None
    /\ tip = NoHash
    /\ utxos = <<>>
    /\ call = NoCall
    /\ pow = PowIdle
    /\ wal = WalIdle
    /\ mtx = MtxIdle
    /\ thr = [w \in Workers |-> NoThread]
    /\ \E received \in MinerReceived :
          LET store == [k \in {<<1>>} |-> GenesisBlock]
              miner == ServerNew(Port(Miner), get_address(2), store, <<1>>)
          IN  net = [nodes |-> [n \in Nodes |->
                        IF n = Miner
                        THEN [(IF received = <<>> THEN miner
                               ELSE ServerAddBlock(miner, received[1]))
                                 EXCEPT !.started = TRUE]
                        ELSE ServerNew(Port(n), <<>>, store, <<1>>)],
                     msgs |-> {},
                     last |-> NoHandler,
                     clients |-> 0]

\* the worker leaves handle_transaction with the given result
Return(w, result) == [thr EXCEPT ![w] = [NoThread EXCEPT !.result = result]]

\* the worker is in a call that never returns
Hang(w, in_call) == [thr EXCEPT ![w].pc = "diverges", ![w].result = in_call]

\* the shared record changes, and nothing else of the network does
SetMiner(node) == net' = [net EXCEPT !.nodes[Miner] = node]

PoolFrame == UNCHANGED <<blocks, last, tip, utxos, call, pow, wal, mtx>>

\* a worker is spawned for a connection that carries a tx message
TxAccept(w, tx) ==
    /\ thr[w].pc = "idle"
    /\ net.clients < MaxPoolTx
    /\ thr' = [thr EXCEPT ![w] = [NoThread EXCEPT !.pc = "insert_mempool",
                                                  !.tx = Some(tx)]]
    /\ net' = [net EXCEPT !.clients = @ + 1]
    /\ PoolFrame

\* self.insert_mempool(msg.transaction.clone())
TxInsertMempool(w) ==
    /\ thr[w].pc = "insert_mempool"
    /\ LET tx == thr[w].tx[1]
       IN  SetMiner([net.nodes[Miner] EXCEPT !.mempool = (tx.id :> tx) @@ @])
    /\ thr' = [thr EXCEPT ![w].pc = "get_mempool"]
    /\ PoolFrame

\* let mut mempool = self.get_mempool(), and the test that guards the loop
TxGetMempool(w) ==
    /\ thr[w].pc = "get_mempool"
    /\ LET mempool == net.nodes[Miner].mempool
       IN  thr' = IF /\ Cardinality(DOMAIN mempool) >= 1
                     /\ net.nodes[Miner].mining_address # <<>>
                  THEN [thr EXCEPT ![w].pc = "loop",
                                   ![w].mempool = mempool,
                                   ![w].size = Cardinality(DOMAIN mempool)]
                  ELSE Return(w, "Ok")
    /\ UNCHANGED net
    /\ PoolFrame

\* a round of the loop begins: txs is empty, and the for loop will visit the
\* local mempool in the order the HashMap yields
TxLoop(w, order) ==
    /\ thr[w].pc = "loop"
    /\ thr[w].rounds <= MaxPoolTx
    /\ order \in Orders(DOMAIN thr[w].mempool)
    /\ thr' = [thr EXCEPT ![w].pc = "verify_tx", ![w].todo = order,
                          ![w].txs = <<>>, ![w].rounds = @ + 1]
    /\ UNCHANGED net
    /\ PoolFrame

\* if self.verify_tx(tx)? { txs.push(tx.clone()) } for the next key
TxVerify(w) ==
    /\ thr[w].pc = "verify_tx"
    /\ thr[w].todo # <<>>
    /\ \E node \in {net.nodes[Miner]}, tx \in {thr[w].mempool[Head(thr[w].todo)]} :
          \E ok \in {verify_transaction(node.blocks, node.last[1], tx)} :
              thr' = IF ok = "diverges" THEN Hang(w, "verify_tx")
                     ELSE IF ok \notin {"true", "false"} THEN Return(w, "Err")
                     ELSE [thr EXCEPT ![w].todo = Tail(@),
                                      ![w].txs = IF ok = "true"
                                                 THEN Append(@, tx) ELSE @]
    /\ UNCHANGED net
    /\ PoolFrame

\* after the for loop: the return when txs is empty, else the coinbase and
\* mempool.remove(&tx.id) for every transaction of txs
TxCollect(w, rnd) ==
    /\ thr[w].pc = "verify_tx"
    /\ thr[w].todo = <<>>
    /\ thr' = IF thr[w].txs = <<>> THEN Return(w, "Ok")
              ELSE LET cbtx == new_coinbase(net.nodes[Miner].mining_address,
                                            <<>>, rnd)
                       txs  == Append(thr[w].txs, cbtx)
                       mempool == thr[w].mempool
                   IN  [thr EXCEPT
                          ![w].pc = "mine_block",
                          ![w].txs = txs,
                          ![w].mempool =
                              [id \in DOMAIN mempool
                                        \ {txs[i].id : i \in 1..Len(txs)}
                                 |-> mempool[id]]]
    /\ UNCHANGED net
    /\ PoolFrame

\* let new_block = self.mine_block(txs)?, on the node's chain
TxMineBlock(w) ==
    /\ thr[w].pc = "mine_block"
    /\ \E node \in {net.nodes[Miner]} :
          \E ok \in {VerifyAll(node.blocks, node.last[1], thr[w].txs)},
             new_block \in {Block(thr[w].txs, node.last[1],
                                  NewBlockHeight(node.blocks, node.last),
                                  <<Cardinality(DOMAIN node.blocks) + 1>>)} :
              IF ok # "true"
              THEN /\ thr' = IF ok = "diverges" THEN Hang(w, "mine_block")
                             ELSE Return(w, "Err")
                   /\ UNCHANGED net
              ELSE /\ thr' = [thr EXCEPT ![w].pc = "utxo_reindex",
                                         ![w].new_block = new_block.hash]
                   /\ SetMiner([node EXCEPT
                                  !.blocks = InsertBlock(node.blocks, new_block),
                                  !.last = Some(new_block.hash)])
    /\ PoolFrame

\* self.utxo_reindex()?
TxReindex(w) ==
    /\ thr[w].pc = "utxo_reindex"
    /\ \E node \in {net.nodes[Miner]} :
          IF IterDiverges(node.blocks, node.last[1])
          THEN /\ thr' = Hang(w, "utxo_reindex")
               /\ UNCHANGED net
          ELSE /\ thr' = [thr EXCEPT ![w].pc = "send_inv"]
               /\ \E store \in {reindex(node.blocks, node.last[1])} :
                      SetMiner([node EXCEPT !.utxos = store])
    /\ PoolFrame

\* send_inv of the new block to the known nodes, then the test that ends
\* the loop
TxSendInv(w) ==
    /\ thr[w].pc = "send_inv"
    /\ LET node == net.nodes[Miner]
           s == SendInvAll(Begin(node),
                           node.known_nodes \ {node.node_address},
                           "block", <<thr[w].new_block>>)
       IN  net' = [net EXCEPT !.nodes[Miner] = s.node, !.msgs = @ \cup s.sent]
    /\ thr' = [thr EXCEPT ![w].pc = IF DOMAIN thr[w].mempool = {}
                                    THEN "clear_mempool" ELSE "loop"]
    /\ PoolFrame

\* self.clear_mempool(), and the handler returns
TxClearMempool(w) ==
    /\ thr[w].pc = "clear_mempool"
    /\ SetMiner([net.nodes[Miner] EXCEPT !.mempool = <<>>])
    /\ thr' = Return(w, "Ok")
    /\ PoolFrame

\* a step of worker w inside the handler
TxStep(w) ==
    \/ TxInsertMempool(w)
    \/ TxGetMempool(w)
    \/ \E order \in Orders(DOMAIN thr[w].mempool) : TxLoop(w, order)
    \/ TxVerify(w)
    \/ \E rnd \in 1..MaxKey : TxCollect(w, rnd)
    \/ TxMineBlock(w)
    \/ TxReindex(w)
    \/ TxSendInv(w)
    \/ TxClearMempool(w)

NextPool ==
    \/ \E w \in Workers, tx \in PoolTxs : TxAccept(w, tx)
    \/ \E w \in Workers : TxStep(w)

SpecPool == InitPool /\ [][NextPool]_vars

\* the steps that read or change the shared mempool, and the local ones
TxLocal(w) ==
    \/ TxInsertMempool(w)
    \/ TxGetMempool(w)
    \/ \E order \in Orders(DOMAIN thr[w].mempool) : TxLoop(w, order)
    \/ \E rnd \in 1..MaxKey : TxCollect(w, rnd)
    \/ TxSendInv(w)
    \/ TxClearMempool(w)

\* worker w is about to call verify_tx, mine_block or utxo_reindex
InChainCall(w) ==
    \/ thr[w].pc = "verify_tx" /\ thr[w].todo # <<>>
    \/ thr[w].pc \in {"mine_block", "utxo_reindex"}

\* every spawned worker keeps running: weak fairness of each worker's steps.
\* For the calls into the chain the condition is written out, with InChainCall
\* for ENABLED (the call is always possible) and the change of the worker's
\* position for the step.
SpecPoolFair ==
    SpecPool /\ \A w \in Workers :
                   /\ WF_vars(TxLocal(w))
                   /\ \/ []<>(~InChainCall(w))
                      \/ []<><<InChainCall(w) /\ thr'[w] # thr[w]>>_vars

----------------------------------------------------------------------------
(* Properties of the concurrent tx handlers *)

\* some block of the node's store contains the transaction
InSomeBlock(node, tx) ==
    \E k \in DOMAIN node.blocks :
        \E i \in 1..Len(node.blocks[k].transactions) :
            node.blocks[k].transactions[i] = tx

\* C33: on a mining node a transaction leaves the shared mempool only after
\* it has been included in a mined block: under any interleaving of tx
\* handlers, no step (clear_mempool is the only one that removes) drops a
\* transaction that no block of the node's chain contains.
C33_ClearDropsOnlyMined ==
    [][\A id \in DOMAIN net.nodes[Miner].mempool :
          id \notin DOMAIN net'.nodes[Miner].mempool
              => InSomeBlock(net'.nodes[Miner], net.nodes[Miner].mempool[id])]_vars

\* C37: the mempool loop ends whenever mine_block returns.  A round either
\* returns because txs is empty or makes the local mempool smaller; a worker
\* has begun at most as many rounds as its snapshot held transactions; and a
\* worker that has entered the loop leaves the handler, unless it is in a
\* mine_block call that does not return.
C37_LoopTerminates ==
    /\ [][\A w \in Workers :
            (thr[w].pc = "verify_tx" /\ thr[w].todo = <<>>
                /\ thr'[w] # thr[w])
                => \/ /\ thr[w].txs = <<>>
                      /\ thr'[w].pc = "idle"
                      /\ thr'[w].result = "Ok"
                   \/ /\ thr'[w].pc = "mine_block"
                      /\ Cardinality(DOMAIN thr'[w].mempool)
                             < Cardinality(DOMAIN thr[w].mempool)]_vars
    /\ [](\A w \in Workers : thr[w].rounds <= thr[w].size)
    /\ \A w \in Workers :
           (thr[w].pc = "loop")
               ~> \/ thr[w].pc = "idle"
                  \/ thr[w].pc = "diverges" /\ thr[w].result = "mine_block"

----------------------------------------------------------------------------
(* Concurrent block and inv handlers on one node (server.rs:271-289 and    *)
(* 356-368): each connection worker runs its handler one accessor call at  *)
(* a time.  thr[w] holds the message and the local vector in_transit (or   *)
(* new_in_transit); net.requested lists the hashes handed to send_get_data *)
(* with kind "block", in the order of the calls.                           *)

\* number of block and inv messages the node accepts
MaxTransitMsg == 3

\* the node that receives, and the listening peer that sends
Receiver == 2
Sender == 1

\* the inv messages of the peer, with no hash in common, and the block
\* messages that carry the blocks of its chain
TransitMessages ==
    {[Msg(NodeAddress(Port(Receiver)), "inv", NodeAddress(Port(Sender)))
         EXCEPT !.kind = "block", !.items = items] :
        items \in {<<<<2>>, <<3>>, <<4>>>>, <<<<5>>, <<6>>>>}}
    \cup
    {[Msg(NodeAddress(Port(Receiver)), "block", NodeAddress(Port(Sender)))
         EXCEPT !.block = Some(Block(<<>>, <<h - 1>>, h - 1, <<h>>))] :
        h \in 2..3}

\* a worker outside the handlers
NoTransit == [pc |-> "idle", msg |-> None, in_transit |-> <<>>, result |-> "none"]

InitTransit ==
    /\ blocks = <<>>
    /\ last = None
    /\ tip = NoHash
    /\ utxos = <<>>
    /\ call = NoCall
    /\ pow = PowIdle
    /\ wal = WalIdle
    /\ mtx = MtxIdle
    /\ thr = [w \in Workers |-> NoTransit]
    /\ net = [nodes |-> [n \in Nodes |->
                  [ServerNew(Port(n), <<>>, [k \in {<<1>>} |-> GenesisBlock],
                             <<1>>) EXCEPT !.started = TRUE]],
              msgs |-> {},
              last |-> NoHandler,
              clients |-> 0,
              requested |-> <<>>]

\* the hashes of the inv messages accepted so far: requested at once, in the
\* hands of a worker, or on the shared list
Announced ==
    {net.requested[i] : i \in 1..Len(net.requested)}
    \cup {net.nodes[Receiver].blocks_in_transit[i] :
            i \in 1..Len(net.nodes[Receiver].blocks_in_transit)}
    \cup UNION {{thr[w].msg[1].items[i] : i \in 1..Len(thr[w].msg[1].items)} :
                  w \in {v \in Workers : thr[v].msg # None}}

\* a worker is spawned for a connection that carries a block or an inv
\* message; the peer sends each inv message once
Connect(w, msg) ==
    /\ thr[w].pc = "idle"
    /\ net.clients < MaxTransitMsg
    /\ \A i \in 1..Len(msg.items) : msg.items[i] \notin Announced
    /\ thr' = [thr EXCEPT ![w] = [NoTransit EXCEPT
                  !.pc = IF msg.cmd = "block" THEN "add_block"
                         ELSE "send_get_data",
                  !.msg = Some(msg)]]
    /\ net' = [net EXCEPT !.clients = @ + 1]
    /\ PoolFrame

\* handle_block: self.add_block(msg.block)?
BlockAddBlock(w) ==
    /\ thr[w].pc = "add_block"
    /\ net' = [net EXCEPT !.nodes[Receiver] =
                  ServerAddBlock(@, thr[w].msg[1].block[1])]
    /\ thr' = [thr EXCEPT ![w].pc = "get_in_transit"]
    /\ PoolFrame

\* handle_block: let mut in_transit = self.get_in_transit(), and the test
BlockGetInTransit(w) ==
    /\ thr[w].pc = "get_in_transit"
    /\ LET in_transit == net.nodes[Receiver].blocks_in_transit
       IN  thr' = [thr EXCEPT ![w].in_transit = in_transit,
                              ![w].pc = IF Len(in_transit) > 0
                                        THEN "send_get_data"
                                        ELSE "utxo_reindex"]
    /\ UNCHANGED net
    /\ PoolFrame

\* what send_get_data(addr, "block", block_hash) does to the network
Request(addr, block_hash) ==
    LET s == send_get_data(Begin(net.nodes[Receiver]), addr, "block", block_hash)
    IN  [net EXCEPT !.nodes[Receiver] = s.node,
                    !.msgs = @ \cup s.sent,
                    !.requested = Append(@, block_hash)]

\* send_get_data of handle_block for in_transit[0], then in_transit.remove(0);
\* send_get_data of handle_invite for msg.items[0], then new_in_transit
SendGetData(w) ==
    /\ thr[w].pc = "send_get_data"
    /\ LET msg == thr[w].msg[1]
       IN  IF msg.cmd = "block"
           THEN /\ net' = Request(msg.address_from, thr[w].in_transit[1])
                /\ thr' = [thr EXCEPT ![w].in_transit = Tail(@),
                                      ![w].pc = "replace_in_transit"]
           ELSE IF msg.items = <<>>
           THEN /\ UNCHANGED net
                /\ thr' = [thr EXCEPT ![w] = [NoTransit EXCEPT !.result = "panic"]]
           ELSE /\ net' = Request(msg.address_from, msg.items[1])
                /\ thr' = [thr EXCEPT
                             ![w].in_transit =
                                 SelectSeq(msg.items,
                                           LAMBDA b : b # msg.items[1]),
                             ![w].pc = "replace_in_transit"]
    /\ PoolFrame

\* self.replace_in_transit(in_transit), and the handler returns
ReplaceInTransit(w) ==
    /\ thr[w].pc = "replace_in_transit"
    /\ net' = [net EXCEPT !.nodes[Receiver].blocks_in_transit =
                  thr[w].in_transit]
    /\ thr' = [thr EXCEPT ![w] = [NoTransit EXCEPT !.result = "Ok"]]
    /\ PoolFrame

\* handle_block: self.utxo_reindex()?, and the handler returns
BlockReindex(w) ==
    /\ thr[w].pc = "utxo_reindex"
    /\ \E node \in {net.nodes[Receiver]} :
          \E store \in {reindex(node.blocks, node.last[1])} :
              net' = [net EXCEPT !.nodes[Receiver].utxos = store]
    /\ thr' = [thr EXCEPT ![w] = [NoTransit EXCEPT !.result = "Ok"]]
    /\ PoolFrame

NextTransit ==
    \/ \E w \in Workers, msg \in TransitMessages : Connect(w, msg)
    \/ \E w \in Workers : BlockAddBlock(w)
    \/ \E w \in Workers : BlockGetInTransit(w)
    \/ \E w \in Workers : SendGetData(w)
    \/ \E w \in Workers : ReplaceInTransit(w)
    \/ \E w \in Workers : BlockReindex(w)

SpecTransit == InitTransit /\ [][NextTransit]_vars

\* C34: under any interleaving of block and inv handlers on one node, each
\* hash placed in blocks_in_transit is requested with getdata exactly once
\* before it leaves the list: no hash is requested twice, and a hash that
\* leaves the list has been requested.
C34_RequestedExactlyOnce ==
    [][/\ \A i, j \in 1..Len(net'.requested) :
              net'.requested[i] = net'.requested[j] => i = j
       /\ \A i \in 1..Len(net.nodes[Receiver].blocks_in_transit) :
              \A h \in {net.nodes[Receiver].blocks_in_transit[i]} :
                  (\A k \in 1..Len(net'.nodes[Receiver].blocks_in_transit) :
                       net'.nodes[Receiver].blocks_in_transit[k] # h)
                      => \E r \in 1..Len(net'.requested) :
                             net'.requested[r] = h]_vars

====
